---------------------------- MODULE Spec2Model ----------------------------
(***************************************************************************)
(* A model of GitGoblin's repository-state extraction layer: the parsers   *)
(* of internal/git (status, branch listing, commit log), the dashboard's   *)
(* upstream-annotation parser, the default-branch resolver, the branch     *)
(* comparison and the dashboard's loadData.                                *)
(*                                                                         *)
(* Text is a sequence of one-character strings, so that slicing, searching *)
(* and splitting are computed as the Go code computes them.  Offsets are   *)
(* 0-based as in Go; Slice(s, a, b) is Go's s[a:b].                        *)
(***************************************************************************)
EXTENDS Integers, Sequences, FiniteSets, TLC

VARIABLES
    unit,        \* which operation of the program this behaviour runs
    pc,          \* the position inside that operation
    input,       \* the text (or the command outcomes) the operation was given
    pos,         \* number of input lines / commands consumed so far
    result,      \* what the operation has produced so far
    err,         \* whether the operation returned an error
    invoked      \* the external git commands run so far, in order

vars == <<unit, pc, input, pos, result, err, invoked>>

---------------------------------------------------------------------------
(* Go's strings package, as used by the parsers.                           *)

Slice(s, a, b) == SubSeq(s, a + 1, b)

SliceFrom(s, a) == SubSeq(s, a + 1, Len(s))

\* unicode.IsSpace, on the characters the inputs are drawn from.
IsSpace(c) == c \in {" ", "\t", "\n", "\r"}

HasPrefix(s, p) == Len(s) >= Len(p) /\ SubSeq(s, 1, Len(p)) = p

TrimPrefix(s, p) == IF HasPrefix(s, p) THEN SliceFrom(s, Len(p)) ELSE s

\* strings.Index: the 0-based offset of the first occurrence of sub, or -1.
Index(s, sub) ==
    LET hits == {i \in 0..(Len(s) - Len(sub)) : Slice(s, i, i + Len(sub)) = sub}
    IN  IF hits = {} THEN -1 ELSE CHOOSE i \in hits : \A j \in hits : i <= j

Contains(s, sub) == Index(s, sub) >= 0

\* strings.TrimSpace: leading and trailing white space removed.
TrimSpace(s) ==
    LET keep == {i \in 1..Len(s) : ~IsSpace(s[i])}
    IN  IF keep = {} THEN <<>>
        ELSE LET lo == CHOOSE i \in keep : \A j \in keep : i <= j
                 hi == CHOOSE i \in keep : \A j \in keep : j <= i
             IN  SubSeq(s, lo, hi)

\* strings.Split with a non-empty separator: non-overlapping, left to right.
RECURSIVE Split(_, _)
Split(s, sep) ==
    LET i == Index(s, sep)
    IN  IF i < 0 THEN <<s>>
        ELSE <<Slice(s, 0, i)>> \o Split(SliceFrom(s, i + Len(sep)), sep)

\* strings.Fields: the maximal runs of non-space characters.
RECURSIVE Fields(_)
Fields(s) ==
    IF s = <<>> THEN <<>>
    ELSE IF IsSpace(s[1]) THEN Fields(Tail(s))
    ELSE LET stops == {i \in 1..Len(s) : IsSpace(s[i])}
             n == IF stops = {} THEN Len(s)
                  ELSE (CHOOSE i \in stops : \A j \in stops : i <= j) - 1
         IN  <<SubSeq(s, 1, n)>> \o Fields(SubSeq(s, n + 1, Len(s)))

\* strings.Join.
RECURSIVE Join(_, _)
Join(parts, sep) ==
    IF parts = <<>> THEN <<>>
    ELSE IF Len(parts) = 1 THEN parts[1]
    ELSE parts[1] \o sep \o Join(Tail(parts), sep)

\* All sequences over S of length at most n.
SeqsUpTo(S, n) == UNION {[1..k -> S] : k \in 0..n}

---------------------------------------------------------------------------
(* models.FileStatus and the status parser (internal/git/status.go).       *)

StatusModified  == "M"
StatusAdded     == "A"
StatusDeleted   == "D"
StatusRenamed   == "R"
StatusCopied    == "C"
StatusUntracked == "??"
NoStatus        == ""

RenameArrow == <<" ", "-", ">", " ">>

\* A slip that keeps the source name of a rename instead of the destination.
StatusPathKeepsSource(line) ==
    LET path  == TrimSpace(SliceFrom(line, 3))
        parts == Split(path, RenameArrow)
    IN  IF line[1] = "R" /\ Len(parts) = 2 THEN parts[1] ELSE path

\* status.go:41-49: the path is line[3:] trimmed; for a staged rename with
\* exactly two " -> " segments the second segment replaces it.
StatusPath(line) ==
    LET path  == TrimSpace(SliceFrom(line, 3))
        parts == Split(path, RenameArrow)
    IN  IF line[1] = "R" /\ Len(parts) = 2 THEN parts[2] ELSE path

\* status.go:56-72: the switch on the staged character.
StagedStatusOf(stagedChar) ==
    CASE stagedChar = "M" -> StatusModified
      [] stagedChar = "A" -> StatusAdded
      [] stagedChar = "D" -> StatusDeleted
      [] stagedChar = "R" -> StatusRenamed
      [] stagedChar = "C" -> StatusCopied
      [] OTHER -> NoStatus

\* A slip that forgets the flag in the "C" case of the switch.
IsStagedOfWithoutCopied(stagedChar) == stagedChar \in {"M", "A", "D", "R"}

IsStagedOf(stagedChar) == stagedChar \in {"M", "A", "D", "R", "C"}

\* status.go:75-83: the switch on the working-tree character.
WorkingStatusOf(workingChar) ==
    CASE workingChar = "M" -> StatusModified
      [] workingChar = "D" -> StatusDeleted
      [] workingChar = "?" -> StatusUntracked
      [] OTHER -> NoStatus

IsUntrackedOf(workingChar) == workingChar = "?"

\* A slip that reads the first column as the working tree and the second as
\* the index.
FileChangeOfSwapped(line) ==
    [Path         |-> StatusPath(line),
     Status       |-> WorkingStatusOf(line[1]),
     StagedStatus |-> StagedStatusOf(line[2]),
     IsStaged     |-> IsStagedOf(line[2]),
     IsUntracked  |-> IsUntrackedOf(line[1])]

\* One iteration of parseStatus's loop on a line of length >= 4.
FileChangeOf(line) ==
    [Path         |-> StatusPath(line),
     Status       |-> WorkingStatusOf(line[2]),
     StagedStatus |-> StagedStatusOf(line[1]),
     IsStaged     |-> IsStagedOf(line[1]),
     IsUntracked  |-> IsUntrackedOf(line[2])]

\* A slip that also drops the lines neither of whose codes is in the table.
StatusLineKeptRecognised(line) ==
    /\ Len(line) >= 4
    /\ (line[1] \in {"M", "A", "D", "R", "C"} \/ line[2] \in {"M", "D", "?"})

\* The length test that drops a line (status.go:35).
StatusLineKept(line) == Len(line) >= 4

(* Inputs of parseStatus: the lines bufio.Scanner yields.                  *)
MaxStatusLines == 2

StagedChars  == {"M", "A", "D", "R", "C", " ", "?", "U"}
WorkingChars == {"M", "D", "?", " ", "A"}

StatusPathTexts ==
    {<<"f">>,
     <<"o", " ", "-", ">", " ", "n">>,                      \* old -> new
     <<"o", " ", "-", ">", " ", "n", " ", "-", ">", " ", "f">>,  \* three segments
     <<"o", "-", ">", "n">>,                                \* no separator
     <<"o", " ", "-", ">", " ">>,                           \* nothing after the arrow
     <<" ", "-", ">", " ", "n">>,                           \* nothing before the arrow
     <<"o", " ", "-", ">", " ", " ", "n">>,                 \* destination begins with a space
     <<" ", "f", " ">>}                                     \* padded

\* The lines of the staged/working scenario.
StagedModifiedLine  == <<"M", " ", " ", "f", "o", "o", ".", "t", "x", "t">>
StagedAddedLine     == <<"A", " ", " ", "b", "a", "r", ".", "t", "x", "t">>
WorkingModifiedLine == <<" ", "M", " ", "f", "o", "o", ".", "t", "x", "t">>

ScenarioStatusLines == {StagedModifiedLine, StagedAddedLine, WorkingModifiedLine}

StatusLines ==
    {<<x, y, " ">> \o <<"f">> : x \in StagedChars, y \in WorkingChars}
    \cup {<<x, " ", " ">> \o p : x \in {"R", "M"}, p \in StatusPathTexts}
    \cup {<<>>, <<"M">>, <<"M", " ", "f">>, <<"?", "?", " ">>}
    \cup ScenarioStatusLines

StatusInputs == SeqsUpTo(StatusLines, MaxStatusLines)

InitStatus ==
    /\ unit = "parseStatus"
    /\ pc = "scan"
    /\ input \in StatusInputs
    /\ pos = 0
    /\ result = <<>>
    /\ err = FALSE
    /\ invoked = <<>>

\* status.go:33-37: a line shorter than 4 characters is skipped.
ParseStatusSkip ==
    /\ unit = "parseStatus" /\ pc = "scan"
    /\ pos < Len(input)
    /\ ~StatusLineKept(input[pos + 1])
    /\ pos' = pos + 1
    /\ UNCHANGED <<unit, pc, input, result, err, invoked>>

\* status.go:39-85: a record is built from the line and appended.
ParseStatusEmit ==
    /\ unit = "parseStatus" /\ pc = "scan"
    /\ pos < Len(input)
    /\ StatusLineKept(input[pos + 1])
    /\ result' = Append(result, FileChangeOf(input[pos + 1]))
    /\ pos' = pos + 1
    /\ UNCHANGED <<unit, pc, input, err, invoked>>

\* status.go:88: return files, nil.
ParseStatusReturn ==
    /\ unit = "parseStatus" /\ pc = "scan"
    /\ pos = Len(input)
    /\ pc' = "done"
    /\ err' = FALSE
    /\ UNCHANGED <<unit, input, pos, result, invoked>>

NextStatus == ParseStatusSkip \/ ParseStatusEmit \/ ParseStatusReturn

SpecStatus == InitStatus /\ [][NextStatus]_vars

\* The lines among the first n of a status input that produce a record.
KeptStatusLines(n) == SelectSeq(SubSeq(input, 1, n), StatusLineKept)


\* C1: for every status line of length >= 4 with staged code X and working
\* code Y, the record has IsStaged = TRUE exactly when X is one of M, A, D,
\* R, C, and then StagedStatus is the status of that letter; IsUntracked is
\* TRUE exactly when Y is "?".  Records whose lines agree on X and Y agree
\* on both flags, whatever their paths and whatever the other lines are.
C1_FlagsFollowCodes ==
    unit = "parseStatus" =>
        LET kept == KeptStatusLines(pos)
        IN  /\ Len(result) = Len(kept)
            /\ \A i \in 1..Len(result) :
                  /\ result[i].IsStaged <=> kept[i][1] \in {"M", "A", "D", "R", "C"}
                  /\ result[i].IsStaged => result[i].StagedStatus = kept[i][1]
                  /\ ~result[i].IsStaged => result[i].StagedStatus = ""
                  /\ result[i].IsUntracked <=> kept[i][2] = "?"
            /\ \A i, j \in 1..Len(result) :
                  (kept[i][1] = kept[j][1] /\ kept[i][2] = kept[j][2]) =>
                      /\ result[i].IsStaged = result[j].IsStaged
                      /\ result[i].IsUntracked = result[j].IsUntracked

\* C1's case: a finished parse of two lines of length >= 4, one giving a
\* staged record that is not untracked, the other an untracked record that
\* is not staged.
C1_Witness ==
    /\ unit = "parseStatus" /\ pc = "done"
    /\ Len(input) = 2 /\ Len(result) = 2
    /\ \E i, j \in 1..Len(result) :
          /\ result[i].IsStaged /\ ~result[i].IsUntracked
          /\ result[j].IsUntracked /\ ~result[j].IsStaged

\* The offsets (1-based) at which the rename arrow occurs in a text.
ArrowOffsets(p) == {k \in 1..(Len(p) - 3) : SubSeq(p, k, k + 3) = RenameArrow}

\* A name: not empty, with no white space at either end.
IsName(s) == s # <<>> /\ ~IsSpace(s[1]) /\ ~IsSpace(s[Len(s)])

\* C2: for every status line whose staged code is R and whose path part is
\* old -> new with exactly one " -> " in it (old and new names), the
\* record's Path is new: not old, and not the whole text.
C2_RenameYieldsDestination ==
    unit = "parseStatus" =>
        LET kept == KeptStatusLines(pos)
        IN  \A i \in 1..Len(result) :
              LET p == SliceFrom(kept[i], 3)
              IN  (kept[i][1] = "R" /\ Cardinality(ArrowOffsets(p)) = 1) =>
                    LET k    == CHOOSE k \in ArrowOffsets(p) : TRUE
                        old  == SubSeq(p, 1, k - 1)
                        new  == SubSeq(p, k + 4, Len(p))
                    IN  (IsName(old) /\ IsName(new)) =>
                            /\ result[i].Path = new
                            /\ result[i].Path # old
                            /\ result[i].Path # p

\* C2's case: a finished parse that emitted the record of "R  o -> n".
C2_Witness ==
    /\ unit = "parseStatus" /\ pc = "done"
    /\ \E i \in 1..Len(result) :
          /\ Len(input) = Len(result)
          /\ input[i] = <<"R", " ", " ", "o", " ", "-", ">", " ", "n">>
          /\ result[i].Path = <<"n">>

---------------------------------------------------------------------------
(* The branch parser (internal/git/branch.go).                             *)

Star == <<"*">>

RemotesPrefix == <<"r", "e", "m", "o", "t", "e", "s", "/">>

\* branch.go:160: a line that is blank after trimming is skipped.
BranchLineBlank(line) == TrimSpace(line) = <<>>

\* A slip that also takes the "+" marker of a branch checked out in another
\* worktree for the current-branch marker.
BranchIsCurrentOrWorktree(line) == HasPrefix(line, Star) \/ HasPrefix(line, <<"+">>)

\* branch.go:167-168: the current flag is set when the line begins with "*".
BranchIsCurrent(line) == HasPrefix(line, Star)

\* branch.go:167-174: the marker (or one leading space) is removed and the
\* rest trimmed.
BranchStripMarker(line) ==
    TrimSpace(IF HasPrefix(line, Star) THEN TrimPrefix(line, Star)
              ELSE TrimPrefix(line, <<" ">>))

\* A slip that closes the annotation at the last "]" of the line.
extractUpstreamInfoLastClose(line) ==
    LET start  == Index(line, <<"[">>)
        closes == {k \in 1..Len(line) : line[k] = "]"}
        end    == IF closes = {} THEN -1
                  ELSE (CHOOSE k \in closes : \A j \in closes : j <= k) - 1
    IN  IF start >= 0 /\ end > start THEN Slice(line, start + 1, end) ELSE <<>>

\* branch.go:216-223.
extractUpstreamInfo(line) ==
    LET start == Index(line, <<"[">>)
        end   == Index(line, <<"]">>)
    IN  IF start >= 0 /\ end > start THEN Slice(line, start + 1, end) ELSE <<>>

\* branch.go:191-197: line is the stripped line, parts its fields.
BranchUpstream(line, parts) ==
    IF Len(parts) > 2 /\ HasPrefix(parts[3], <<"[">>)
    THEN extractUpstreamInfo(line)
    ELSE <<>>

\* branch.go:199-208: the text after the first occurrence of the hash, with
\* a bracketed segment up to the first "]" skipped, trimmed.
BranchLastCommit(line, hash) ==
    LET messageStart == Index(line, hash) + Len(hash)
    IN  IF messageStart < Len(line)
        THEN LET message == SliceFrom(line, messageStart)
                 idx     == Index(message, <<"]">>)
             IN  TrimSpace(IF idx > 0 /\ Contains(Slice(message, 0, idx), <<"[">>)
                           THEN SliceFrom(message, idx + 1)
                           ELSE message)
        ELSE <<>>

\* branch.go:177-180: a line with fewer than two fields is skipped.
BranchLineKept(line) ==
    ~BranchLineBlank(line) /\ Len(Fields(BranchStripMarker(line))) >= 2

\* branch.go:164-210: one iteration of parseBranches's loop on a kept line.
BranchOf(raw) ==
    LET line  == BranchStripMarker(raw)
        parts == Fields(line)
        isRemote == HasPrefix(parts[1], RemotesPrefix)
    IN  [Name       |-> IF isRemote THEN TrimPrefix(parts[1], RemotesPrefix) ELSE parts[1],
         Hash       |-> parts[2],
         IsCurrent  |-> BranchIsCurrent(raw),
         IsRemote   |-> isRemote,
         Upstream   |-> BranchUpstream(line, parts),
         LastCommit |-> BranchLastCommit(line, parts[2])]

(* Inputs of parseBranches: lines of `git branch -vv --all`.               *)
MaxBranchLines == 2

BranchNames ==
    {<<"m">>, <<"f", "]">>, <<"r", "e", "m", "o", "t", "e", "s", "/", "o", "/", "m">>}

BranchHashes == {<<"a", "1">>}

UpstreamTexts == {<<"o", "/", "m">>, <<"o", "/", "m", ":", " ", "a", "h", "e", "a", "d", " ", "2", ",", " ", "b", "e", "h", "i", "n", "d", " ", "1">>}

BranchMessages == {<<>>, <<"f", "i", "x">>, <<"f", "i", "x", " ", "b", "u", "g">>}

\* "* name hash [upstream] message"; the message may be absent.
ShapeLine(marker, name, hash, upstream, message) ==
    marker \o <<" ">> \o name \o <<" ">> \o hash \o <<" ", "[">> \o upstream \o <<"]">>
        \o (IF message = <<>> THEN <<>> ELSE <<" ">> \o message)

\* "* name hash message", without an upstream annotation.
PlainLine(marker, name, hash, message) ==
    marker \o <<" ">> \o name \o <<" ">> \o hash
        \o (IF message = <<>> THEN <<>> ELSE <<" ">> \o message)

BranchMarkers == {<<"*">>, <<" ">>}

\* The listing of the round-trip scenario.
ScenarioLine == <<"*", " ", "m", "a", "i", "n", " ", "a", "1", "b", "2", "c", "3", "d", " ", "[", "o", "r", "i", "g", "i", "n", "/", "m", "a", "i", "n", ":", " ", "a", "h", "e", "a", "d", " ", "2", ",", " ", "b", "e", "h", "i", "n", "d", " ", "1", "]", " ", "f", "i", "x", " ", "b", "u", "g">>

\* Lines with brackets in the name, in the third token only, and in the
\* commit message without and with an upstream annotation.
BracketLines ==
    {ShapeLine(Star, <<"g", "[", "x">>, <<"a", "1">>, <<"o", "/", "m">>, <<"f", "i", "x">>),
     PlainLine(<<" ">>, <<"m">>, <<"a", "1">>, <<"[", "w", "i", "p">>),
     PlainLine(Star, <<"m">>, <<"a", "1">>, <<"f", "i", "x", " ", "[", "c", "i", "]", " ", "x">>),
     ShapeLine(Star, <<"m">>, <<"a", "1">>, <<"o", "/", "m">>,
               <<"f", "i", "x", " ", "[", "c", "i", "]", " ", "x">>)}

\* A branch checked out in another worktree, as `git branch -vv` marks it.
WorktreeLine == <<"+", " ", "d", "e", "v", " ", "a", "1", "b", "2", "c", "3", "d", " ", "f", "i", "x">>

\* A line whose first token is the prefix "remotes/" and nothing more.
BarePrefixLine == PlainLine(<<" ">>, RemotesPrefix, <<"a", "1">>, <<"f", "i", "x">>)

BranchLines ==
    {ShapeLine(Star, n, h, u, m) :
        n \in BranchNames, h \in BranchHashes,
        u \in UpstreamTexts, m \in {<<>>, <<"f", "i", "x", " ", "b", "u", "g">>}}
    \cup {ShapeLine(<<" ">>, <<"m">>, h, <<"o", "/", "m">>, <<"f", "i", "x">>) : h \in BranchHashes}
    \cup {PlainLine(k, n, h, <<"f", "i", "x">>) :
        k \in BranchMarkers, n \in {<<"m">>, <<"r", "e", "m", "o", "t", "e", "s", "/", "o", "/", "m">>}, h \in BranchHashes}
    \cup {ScenarioLine,
          <<>>, <<" ", " ">>, <<"*">>, <<"*", " ", "m">>, <<"+", " ", "w", " ", "a", "1", " ", "f", "i", "x">>}
    \cup {BarePrefixLine}
    \cup BracketLines \cup {WorktreeLine}

BranchInputs == SeqsUpTo(BranchLines, MaxBranchLines)

InitBranch ==
    /\ unit = "parseBranches"
    /\ pc = "scan"
    /\ input \in BranchInputs
    /\ pos = 0
    /\ result = <<>>
    /\ err = FALSE
    /\ invoked = <<>>

\* branch.go:160-162 and 178-180: the two `continue`s.
ParseBranchesSkip ==
    /\ unit = "parseBranches" /\ pc = "scan"
    /\ pos < Len(input)
    /\ ~BranchLineKept(input[pos + 1])
    /\ pos' = pos + 1
    /\ UNCHANGED <<unit, pc, input, result, err, invoked>>

\* branch.go:164-210: a record is built from the line and appended.
ParseBranchesEmit ==
    /\ unit = "parseBranches" /\ pc = "scan"
    /\ pos < Len(input)
    /\ BranchLineKept(input[pos + 1])
    /\ result' = Append(result, BranchOf(input[pos + 1]))
    /\ pos' = pos + 1
    /\ UNCHANGED <<unit, pc, input, err, invoked>>

\* branch.go:213: return branches, nil.
ParseBranchesReturn ==
    /\ unit = "parseBranches" /\ pc = "scan"
    /\ pos = Len(input)
    /\ pc' = "done"
    /\ err' = FALSE
    /\ UNCHANGED <<unit, input, pos, result, invoked>>

NextBranch == ParseBranchesSkip \/ ParseBranchesEmit \/ ParseBranchesReturn

SpecBranch == InitBranch /\ [][NextBranch]_vars

\* The number of records the first n lines of a branch listing produce.
BranchRecordsOf(n) == Len(SelectSeq(SubSeq(input, 1, n), BranchLineKept))

\* C3: a line of the shape "* name hash [upstream] message" yields one record
\* with Name = name, Hash = hash, IsCurrent = TRUE, Upstream = the text
\* between the brackets and LastCommit = message.
C3_ShapeParses ==
    unit = "parseBranches" =>
        \A i \in 1..pos :
            \A n \in BranchNames, h \in BranchHashes,
               u \in UpstreamTexts, m \in BranchMessages :
                input[i] = ShapeLine(Star, n, h, u, m) =>
                    /\ BranchLineKept(input[i])
                    /\ LET b == result[BranchRecordsOf(i)]
                       IN  /\ b.Name = n
                           /\ b.Hash = h
                           /\ b.IsCurrent
                           /\ b.Upstream = u
                           /\ b.LastCommit = m

\* The scenario C3 names in particular: the listing
\* "* main a1b2c3d [origin/main: ahead 2, behind 1] fix bug" does parse to
\* main / a1b2c3d / current / "origin/main: ahead 2, behind 1" / "fix bug".
C3_ScenarioParses ==
    (unit = "parseBranches" /\ pc = "done" /\ input = <<ScenarioLine>>) =>
        result = <<[Name       |-> <<"m", "a", "i", "n">>,
                    Hash       |-> <<"a", "1", "b", "2", "c", "3", "d">>,
                    IsCurrent  |-> TRUE,
                    IsRemote   |-> FALSE,
                    Upstream   |-> <<"o", "r", "i", "g", "i", "n", "/", "m", "a", "i", "n", ":", " ", "a", "h", "e", "a", "d", " ", "2", ",", " ", "b", "e", "h", "i", "n", "d", " ", "1">>,
                    LastCommit |-> <<"f", "i", "x", " ", "b", "u", "g">>]>>

\* The records of a finished branch parse that are flagged current.
CurrentRecords == {j \in 1..Len(result) : result[j].IsCurrent}

\* The lines among the first n that begin with "*" and produce a record.
KeptStarLines(n) ==
    {i \in 1..n : HasPrefix(input[i], Star) /\ BranchLineKept(input[i])}

---------------------------------------------------------------------------
(* Decimal numbers as text (strconv.ParseInt, strconv.Atoi, fmt's %d).     *)

DigitChars == <<"0", "1", "2", "3", "4", "5", "6", "7", "8", "9">>

IsDigit(c) == \E d \in 1..10 : DigitChars[d] = c

DigitValue(c) == (CHOOSE d \in 1..10 : DigitChars[d] = c) - 1

RECURSIVE DecimalValue(_)
DecimalValue(s) ==
    IF s = <<>> THEN 0
    ELSE DecimalValue(SubSeq(s, 1, Len(s) - 1)) * 10 + DigitValue(s[Len(s)])

AllDigits(s) == s # <<>> /\ \A i \in 1..Len(s) : IsDigit(s[i])

\* strconv.ParseInt(s, 10, 64) with its error discarded: an optional sign and
\* decimal digits give the number, anything else gives 0.  (The inputs stay
\* far below 2^63, where the range error would apply.)
ParseIntOrZero(s) ==
    IF AllDigits(s) THEN DecimalValue(s)
    ELSE IF s # <<>> /\ s[1] = "+" /\ AllDigits(Tail(s)) THEN DecimalValue(Tail(s))
    ELSE IF s # <<>> /\ s[1] = "-" /\ AllDigits(Tail(s)) THEN 0 - DecimalValue(Tail(s))
    ELSE 0

---------------------------------------------------------------------------
(* The commit-log parser (internal/git/log.go).                            *)

Pipe == <<"|">>

\* A slip that keeps only the lines with exactly 8 fields.
CommitLineKeptExactly(line) == Len(Split(line, Pipe)) = 8

\* log.go:68-71: a line with fewer than 8 "|"-separated fields is skipped.
CommitLineKept(line) == Len(Split(line, Pipe)) >= 8

\* log.go:76-85: the decorations, split on ", ", trimmed, empty ones dropped.
CommitRefs(field) ==
    IF field = <<>> THEN <<>>
    ELSE LET refParts == Split(field, <<",", " ">>)
             trimmed  == [i \in 1..Len(refParts) |-> TrimSpace(refParts[i])]
         IN  SelectSeq(trimmed, LAMBDA r : r # <<>>)

\* log.go:87-90.
CommitParents(field) == IF field = <<>> THEN <<>> ELSE Fields(field)

\* log.go:73-101: one iteration of parseCommits's loop on a kept line.
CommitOf(line) ==
    LET parts == Split(line, Pipe)
    IN  [Hash      |-> parts[1],
         ShortHash |-> parts[2],
         Author    |-> parts[3],
         Email     |-> parts[4],
         Date      |-> ParseIntOrZero(parts[5]),
         Refs      |-> CommitRefs(parts[6]),
         Parents   |-> CommitParents(parts[7]),
         Message   |-> parts[8]]

(* Inputs of parseCommits: lines of                                        *)
(* `git log --pretty=format:%H|%h|%an|%ae|%at|%D|%P|%s`.                   *)
MaxLogLines == 3

\* A log line as git prints it for the format.
LogLine(hash, refs, parents, subject) ==
    Join(<<hash, SubSeq(hash, 1, 1), <<"a">>, <<"e">>, <<"7">>, refs, parents, subject>>, Pipe)

LogHashes == {<<"c", "1">>, <<"d", "2">>}

LogSubjects == {<<>>, <<"m">>, <<"m", "|", "x">>}

LogLines ==
    {LogLine(h, <<>>, <<>>, m) : h \in LogHashes, m \in LogSubjects}
    \cup {LogLine(<<"e", "3">>, <<"H", "E", "A", "D", " ", "-", ">", " ", "m", "a", "i", "n", ",", " ", "t", "a", "g", ":", " ", "v", "1">>, <<"c", "1", " ", "d", "2">>, <<"m">>)}
    \cup {<<>>,                                   \* an empty line
          <<"c", "1", "|", "c", "|", "a", "|", "e", "|", "7", "|", "|">>,        \* seven fields
          <<"c", "1", "|", "c">>}                \* two fields

LogInputs == SeqsUpTo(LogLines, MaxLogLines)

InitLog ==
    /\ unit = "parseCommits"
    /\ pc = "scan"
    /\ input \in LogInputs
    /\ pos = 0
    /\ result = <<>>
    /\ err = FALSE
    /\ invoked = <<>>

\* log.go:68-71: continue.
ParseCommitsSkip ==
    /\ unit = "parseCommits" /\ pc = "scan"
    /\ pos < Len(input)
    /\ ~CommitLineKept(input[pos + 1])
    /\ pos' = pos + 1
    /\ UNCHANGED <<unit, pc, input, result, err, invoked>>

\* log.go:73-103: a commit is built from the line and appended.
ParseCommitsEmit ==
    /\ unit = "parseCommits" /\ pc = "scan"
    /\ pos < Len(input)
    /\ CommitLineKept(input[pos + 1])
    /\ result' = Append(result, CommitOf(input[pos + 1]))
    /\ pos' = pos + 1
    /\ UNCHANGED <<unit, pc, input, err, invoked>>

\* log.go:106: return commits.
ParseCommitsReturn ==
    /\ unit = "parseCommits" /\ pc = "scan"
    /\ pos = Len(input)
    /\ pc' = "done"
    /\ UNCHANGED <<unit, input, pos, result, err, invoked>>

NextLog == ParseCommitsSkip \/ ParseCommitsEmit \/ ParseCommitsReturn

SpecLog == InitLog /\ [][NextLog]_vars

\* The number of "|"-separated fields of a line, counted from its delimiters.
FieldCount(line) == Cardinality({i \in 1..Len(line) : line[i] = "|"}) + 1

\* The positions, among the first n lines, of the lines with at least 8 fields.
WellFormedLines(n) == {i \in 1..n : FieldCount(input[i]) >= 8}

\* The text of a line before its first "|".
FirstField(line) ==
    LET bars == {i \in 1..Len(line) : line[i] = "|"}
    IN  SubSeq(line, 1, (CHOOSE i \in bars : \A j \in bars : i <= j) - 1)

\* C5: parseCommits emits one commit, in input order, for exactly the lines
\* with at least 8 "|"-separated fields and drops every other line; a log of
\* N lines of which exactly one has fewer than 8 fields yields N-1 commits.
C5_MalformedLinesDropped ==
    unit = "parseCommits" =>
        /\ Len(result) = Cardinality(WellFormedLines(pos))
        /\ \A i \in WellFormedLines(pos) :
              result[Cardinality(WellFormedLines(i))].Hash = FirstField(input[i])
        /\ (pc = "done" /\ Cardinality(WellFormedLines(Len(input))) = Len(input) - 1) =>
              Len(result) = Len(input) - 1

\* C5's case: a finished parse of a three-line log whose middle line is
\* malformed, giving the two commits of the other lines in order.
C5_Witness ==
    /\ unit = "parseCommits" /\ pc = "done"
    /\ Len(input) = 3
    /\ WellFormedLines(3) = {1, 3}
    /\ Len(result) = 2
    /\ result[1].Hash # result[2].Hash

---------------------------------------------------------------------------
(* fmt.Sscanf with integer operands, as Go's fmt package runs it           *)
(* (fmt/scan.go: doScanf, scanOne, scanInt).  After a "%" and an optional  *)
(* width the next character IS the verb: Go has no assignment-suppression  *)
(* flag, so in "%*s%d" the first verb is "*", it consumes the first        *)
(* operand, and scanInt rejects it ("bad verb '%*' for integer").  An      *)
(* error ends the scan; operands stored before it keep their values, the   *)
(* others keep what they held.  The callers discard the error.             *)

\* The verbs scanInt accepts (okVerb(verb, "bdoUxXv", "integer")).
IntegerVerbs == {"b", "d", "o", "U", "x", "X", "v"}

RECURSIVE SkipSpaces(_)
SkipSpaces(in) ==
    IF in # <<>> /\ IsSpace(in[1]) THEN SkipSpaces(Tail(in)) ELSE in

\* The longest prefix of digits.
RECURSIVE LeadingDigits(_)
LeadingDigits(in) ==
    IF in # <<>> /\ IsDigit(in[1]) THEN <<in[1]>> \o LeadingDigits(Tail(in)) ELSE <<>>

\* in: the unread input; format: the unread format; k: the operands consumed;
\* vals: the operands' values.  The formats used hold no white space and no
\* width, and only the base-10 verb "d" reaches the number scan.
RECURSIVE doScanf(_, _, _, _)
doScanf(in, format, k, vals) ==
    IF format = <<>> THEN vals
    ELSE IF format[1] # "%"
    THEN \* advance: a literal character must match the input
         IF in # <<>> /\ in[1] = format[1]
         THEN doScanf(Tail(in), Tail(format), k, vals)
         ELSE vals                          \* input does not match format
    ELSE IF Len(format) < 2 THEN vals       \* too few operands for format '%'
    ELSE LET verb   == format[2]
             rest   == SubSeq(format, 3, Len(format))
             in1    == SkipSpaces(in)
             signed == in1 # <<>> /\ in1[1] \in {"+", "-"}
             body   == IF signed THEN Tail(in1) ELSE in1
             digits == LeadingDigits(body)
             value  == IF signed /\ in1[1] = "-" THEN 0 - DecimalValue(digits)
                       ELSE DecimalValue(digits)
         IN  IF k >= Len(vals) THEN vals    \* too few operands
             ELSE IF in1 = <<>> THEN vals   \* unexpected EOF
             ELSE IF verb \notin IntegerVerbs THEN vals   \* bad verb for integer
             ELSE IF digits = <<>> THEN vals              \* expected integer
             ELSE doScanf(SubSeq(body, Len(digits) + 1, Len(body)), rest, k + 1,
                          [vals EXCEPT ![k + 1] = value])

\* fmt.Sscanf(str, format, &v1, ..., &vn), vals holding v1..vn before the call.
Sscanf(str, format, vals) == doScanf(str, format, 0, vals)

---------------------------------------------------------------------------
(* parseUpstream (internal/ui/dashboard.go; the same text in all three     *)
(* versions of the dashboard).                                             *)

Colon == <<":">>
AheadWord  == <<"a", "h", "e", "a", "d">>
BehindWord == <<"b", "e", "h", "i", "n", "d">>
FormatOne  == <<"%", "*", "s", "%", "d">>
FormatBoth == <<"%", "*", "s", "%", "d", "%", "*", "s", "%", "*", "s", "%", "d">>

\* parts[1] of strings.Split(upstream, ":").
UpstreamStatus(upstream) == Split(upstream, Colon)[2]

\* The first two returns: no ":" in the text.
UpstreamHasStatus(upstream) ==
    Contains(upstream, Colon) /\ Len(Split(upstream, Colon)) >= 2

\* `if strings.Contains(status, "ahead") { fmt.Sscanf(status, "%*s%d", &ahead) }`
UpstreamAhead(status) ==
    IF Contains(status, AheadWord) THEN Sscanf(status, FormatOne, <<0>>)[1] ELSE 0

\* The "behind" block; dummy and behind are 0 before the call.
UpstreamBehind(status) ==
    IF Contains(status, BehindWord)
    THEN IF Contains(status, AheadWord)
         THEN Sscanf(status, FormatBoth, <<0, 0>>)[2]
         ELSE Sscanf(status, FormatOne, <<0>>)[1]
    ELSE 0

\* The whole function: <<ahead, behind>>.
parseUpstream(upstream) ==
    IF ~UpstreamHasStatus(upstream) THEN <<0, 0>>
    ELSE <<UpstreamAhead(UpstreamStatus(upstream)),
           UpstreamBehind(UpstreamStatus(upstream))>>

(* Inputs of parseUpstream: upstream annotations of `git branch -vv`.      *)
MaxCount == 3

\* A count as git prints it.
RECURSIVE Decimal(_)
Decimal(n) ==
    IF n < 10 THEN <<DigitChars[n + 1]>>
    ELSE Decimal(n \div 10) \o <<DigitChars[(n % 10) + 1]>>

UpstreamRefs == {<<"o", "r", "i", "g", "i", "n", "/", "m", "a", "i", "n">>, <<"o", "/", "m">>}

\* The white space put around the tokens: one space as git prints it, or more.
Gaps == {<<" ">>, <<" ", " ">>, <<"\t">>}

AnnotationBoth(ref, g, a, b) ==
    ref \o Colon \o g \o AheadWord \o g \o Decimal(a) \o <<",">> \o g
        \o BehindWord \o g \o Decimal(b)

AnnotationAhead(ref, g, a) == ref \o Colon \o g \o AheadWord \o g \o Decimal(a)

AnnotationBehind(ref, g, b) == ref \o Colon \o g \o BehindWord \o g \o Decimal(b)

UpstreamInputs ==
    {AnnotationBoth(r, g, a, b) : r \in UpstreamRefs, g \in Gaps,
                                  a \in 1..MaxCount, b \in 1..MaxCount}
    \cup {AnnotationAhead(r, g, a) : r \in UpstreamRefs, g \in Gaps, a \in 1..MaxCount}
    \cup {AnnotationBehind(r, g, b) : r \in UpstreamRefs, g \in Gaps, b \in 1..MaxCount}
    \cup UpstreamRefs
    \cup {r \o <<":", " ", "g", "o", "n", "e">> : r \in UpstreamRefs}

InitUpstream ==
    /\ unit = "parseUpstream"
    /\ pc = "start"
    /\ input \in UpstreamInputs
    /\ pos = 0
    /\ result = <<0, 0>>
    /\ err = FALSE
    /\ invoked = <<>>

\* The early returns: no status part.
ParseUpstreamNoStatus ==
    /\ unit = "parseUpstream" /\ pc = "start"
    /\ ~UpstreamHasStatus(input)
    /\ pc' = "done"
    /\ UNCHANGED <<unit, input, pos, result, err, invoked>>

\* The "ahead" block.
ParseUpstreamAhead ==
    /\ unit = "parseUpstream" /\ pc = "start"
    /\ UpstreamHasStatus(input)
    /\ result' = [result EXCEPT ![1] = UpstreamAhead(UpstreamStatus(input))]
    /\ pc' = "behind"
    /\ UNCHANGED <<unit, input, pos, err, invoked>>

\* The "behind" block and the return.
ParseUpstreamBehind ==
    /\ unit = "parseUpstream" /\ pc = "behind"
    /\ result' = [result EXCEPT ![2] = UpstreamBehind(UpstreamStatus(input))]
    /\ pc' = "done"
    /\ UNCHANGED <<unit, input, pos, err, invoked>>

NextUpstream == ParseUpstreamNoStatus \/ ParseUpstreamAhead \/ ParseUpstreamBehind

SpecUpstream == InitUpstream /\ [][NextUpstream]_vars

\* C6: parseUpstream applied to "origin/main: ahead 2, behind 1" returns
\* ahead = 2 and behind = 1, whatever the white space around the tokens.
C6_AheadTwoBehindOne ==
    (unit = "parseUpstream" /\ pc = "done"
        /\ \E g \in Gaps : input = AnnotationBoth(<<"o", "r", "i", "g", "i", "n", "/", "m", "a", "i", "n">>, g, 2, 1)) =>
            result = <<2, 1>>

---------------------------------------------------------------------------
(* GetDefaultBranch (internal/git/branch.go:260-299).  The outcomes of the *)
(* external commands are the input: input.sym and input.remote say whether *)
(* the command succeeded (ok) and what it printed (out), input.refs is the *)
(* set of names for which `git rev-parse --verify origin/<name>` succeeds. *)

\* A command that exits non-zero, and one that prints out and exits zero.
Failed == [ok |-> FALSE, out |-> <<>>]
Printed(out) == [ok |-> TRUE, out |-> out]

OriginPrefix == <<"o", "r", "i", "g", "i", "n", "/">>

HeadLabel == <<"H", "E", "A", "D", " ", "b", "r", "a", "n", "c", "h", ":">>

\* A slip that probes master before main.
commonDefaultsMasterFirst == <<<<"m", "a", "s", "t", "e", "r">>, <<"m", "a", "i", "n">>, <<"d", "e", "v">>, <<"d", "e", "v", "e", "l", "o", "p">>>>

\* branch.go:290.
commonDefaultsWithoutDevelop == <<<<"m", "a", "i", "n">>, <<"m", "a", "s", "t", "e", "r">>, <<"d", "e", "v">>>>

commonDefaults == <<<<"m", "a", "i", "n">>, <<"m", "a", "s", "t", "e", "r">>, <<"d", "e", "v">>, <<"d", "e", "v", "e", "l", "o", "p">>>>

\* branch.go:265-270: the symbolic-ref output, trimmed, without "origin/".
SymbolicRefBranch(output) ==
    LET branchName == TrimSpace(output)
    IN  IF HasPrefix(branchName, OriginPrefix)
        THEN TrimPrefix(branchName, OriginPrefix)
        ELSE branchName

\* branch.go:279-282: the test a line of `remote show origin` must pass.
HeadLineUsable(raw) ==
    LET line == TrimSpace(raw)
    IN  Contains(line, HeadLabel) /\ Len(Split(line, Colon)) = 2

\* A slip that returns the second segment untrimmed.
HeadLineBranchUntrimmed(raw) == Split(TrimSpace(raw), Colon)[2]

\* branch.go:283: the name a usable line gives.
HeadLineBranch(raw) == TrimSpace(Split(TrimSpace(raw), Colon)[2])

(* Inputs of GetDefaultBranch.                                             *)
MaxRemoteLines == 2

SymbolicRefOutputs ==
    {<<"o", "r", "i", "g", "i", "n", "/", "m", "a", "i", "n">> \o <<"\n">>,
     <<"t", "r", "u", "n", "k">> \o <<"\n">>,
     <<"o", "r", "i", "g", "i", "n", "/">> \o <<"\n">>}

\* "  HEAD branch: X" as `git remote show origin` prints it.
HeadLine(name) == <<" ", " ">> \o HeadLabel \o <<" ">> \o name

HeadNames == {<<"d", "e", "v", "e", "l", "o", "p">>, <<"t", "r", "u", "n", "k">>}

RemoteLines ==
    {HeadLine(n) : n \in HeadNames}
    \cup {<<"*", " ", "r", "e", "m", "o", "t", "e", " ", "o", "r", "i", "g", "i", "n">>,
          <<" ", " ", "F", "e", "t", "c", "h", " ", "U", "R", "L", ":", " ", "u">>,
          <<" ", " ">> \o HeadLabel,                    \* nothing after the colon
          HeadLine(<<"a", ":", "b">>)}              \* a second colon

RemoteOutputs == SeqsUpTo(RemoteLines, MaxRemoteLines)

\* The names under origin whose existence `rev-parse --verify` may report.
ProbedNames ==
    {<<"m", "a", "i", "n">>, <<"m", "a", "s", "t", "e", "r">>, <<"d", "e", "v">>,
     <<"d", "e", "v", "e", "l", "o", "p">>}

DefaultBranchInputs ==
    [sym    : {Failed} \cup {Printed(o) : o \in SymbolicRefOutputs},
     remote : {Failed} \cup {Printed(o) : o \in RemoteOutputs},
     refs   : SUBSET ProbedNames]

CmdSymbolicRef == [cmd |-> "symbolic-ref", arg |-> <<>>]
CmdRemoteShow  == [cmd |-> "remote show origin", arg |-> <<>>]
CmdRevParse(name) == [cmd |-> "rev-parse --verify", arg |-> OriginPrefix \o name]

InitDefault ==
    /\ unit = "GetDefaultBranch"
    /\ pc = "probe1"
    /\ input \in DefaultBranchInputs
    /\ pos = 0
    /\ result = <<>>
    /\ err = FALSE
    /\ invoked = <<>>

\* branch.go:262-271: symbolic-ref succeeds and its output is returned.
Probe1Ok ==
    /\ unit = "GetDefaultBranch" /\ pc = "probe1"
    /\ input.sym.ok
    /\ invoked' = Append(invoked, CmdSymbolicRef)
    /\ result' = SymbolicRefBranch(input.sym.out)
    /\ pc' = "done"
    /\ UNCHANGED <<unit, input, pos, err>>

\* branch.go:262-264: symbolic-ref fails.
Probe1Fail ==
    /\ unit = "GetDefaultBranch" /\ pc = "probe1"
    /\ ~input.sym.ok
    /\ invoked' = Append(invoked, CmdSymbolicRef)
    /\ pc' = "probe2"
    /\ UNCHANGED <<unit, input, pos, result, err>>

\* branch.go:274-277: `remote show origin` succeeds; its lines are scanned.
Probe2Ok ==
    /\ unit = "GetDefaultBranch" /\ pc = "probe2"
    /\ input.remote.ok
    /\ invoked' = Append(invoked, CmdRemoteShow)
    /\ pc' = "scan2"
    /\ pos' = 0
    /\ UNCHANGED <<unit, input, result, err>>

\* branch.go:274-276: `remote show origin` fails.
Probe2Fail ==
    /\ unit = "GetDefaultBranch" /\ pc = "probe2"
    /\ ~input.remote.ok
    /\ invoked' = Append(invoked, CmdRemoteShow)
    /\ pc' = "probe3"
    /\ pos' = 0
    /\ UNCHANGED <<unit, input, result, err>>

\* branch.go:278-285: a usable "HEAD branch:" line ends the search.
Scan2Return ==
    /\ unit = "GetDefaultBranch" /\ pc = "scan2"
    /\ pos < Len(input.remote.out)
    /\ HeadLineUsable(input.remote.out[pos + 1])
    /\ result' = HeadLineBranch(input.remote.out[pos + 1])
    /\ pc' = "done"
    /\ UNCHANGED <<unit, input, pos, err, invoked>>

\* branch.go:278-285: any other line is passed over.
Scan2Next ==
    /\ unit = "GetDefaultBranch" /\ pc = "scan2"
    /\ pos < Len(input.remote.out)
    /\ ~HeadLineUsable(input.remote.out[pos + 1])
    /\ pos' = pos + 1
    /\ UNCHANGED <<unit, pc, input, result, err, invoked>>

\* branch.go:286-287: the output is exhausted.
Scan2End ==
    /\ unit = "GetDefaultBranch" /\ pc = "scan2"
    /\ pos = Len(input.remote.out)
    /\ pc' = "probe3"
    /\ pos' = 0
    /\ UNCHANGED <<unit, input, result, err, invoked>>

\* branch.go:291-295: rev-parse resolves the next conventional name.
Probe3Ok ==
    /\ unit = "GetDefaultBranch" /\ pc = "probe3"
    /\ pos < Len(commonDefaults)
    /\ commonDefaults[pos + 1] \in input.refs
    /\ invoked' = Append(invoked, CmdRevParse(commonDefaults[pos + 1]))
    /\ result' = commonDefaults[pos + 1]
    /\ pc' = "done"
    /\ UNCHANGED <<unit, input, pos, err>>

\* branch.go:291-296: rev-parse fails for the next conventional name.
Probe3Fail ==
    /\ unit = "GetDefaultBranch" /\ pc = "probe3"
    /\ pos < Len(commonDefaults)
    /\ commonDefaults[pos + 1] \notin input.refs
    /\ invoked' = Append(invoked, CmdRevParse(commonDefaults[pos + 1]))
    /\ pos' = pos + 1
    /\ UNCHANGED <<unit, pc, input, result, err>>

\* branch.go:298: "could not detect default branch".
Probe3Exhausted ==
    /\ unit = "GetDefaultBranch" /\ pc = "probe3"
    /\ pos = Len(commonDefaults)
    /\ result' = <<>>
    /\ err' = TRUE
    /\ pc' = "done"
    /\ UNCHANGED <<unit, input, pos, invoked>>

NextDefault ==
    \/ Probe1Ok \/ Probe1Fail
    \/ Probe2Ok \/ Probe2Fail
    \/ Scan2Return \/ Scan2Next \/ Scan2End
    \/ Probe3Ok \/ Probe3Fail \/ Probe3Exhausted

SpecDefault == InitDefault /\ [][NextDefault]_vars

\* The lines "  HEAD branch: X" with X a branch name, or with nothing after
\* the colon (X empty).
IsHeadLineOf(line, name) ==
    \/ name \in HeadNames /\ line = HeadLine(name)
    \/ name = <<>> /\ line = <<" ", " ">> \o HeadLabel

HeadLinePositions(lines) ==
    {i \in 1..Len(lines) : \E n \in HeadNames \cup {<<>>} : IsHeadLineOf(lines[i], n)}

RevParseRun == \E i \in 1..Len(invoked) : invoked[i].cmd = "rev-parse --verify"

\* C7: if symbolic-ref fails and `remote show origin` succeeds with a line
\* "  HEAD branch: X", GetDefaultBranch returns X (of the first such line)
\* with no error, and rev-parse is never invoked.
C7_RemoteShowDecides ==
    (unit = "GetDefaultBranch" /\ ~input.sym.ok /\ input.remote.ok
        /\ HeadLinePositions(input.remote.out) # {}) =>
            /\ ~RevParseRun
            /\ pc = "done" =>
                  LET first == CHOOSE i \in HeadLinePositions(input.remote.out) :
                                   \A j \in HeadLinePositions(input.remote.out) : i <= j
                  IN  /\ ~err
                      /\ IsHeadLineOf(input.remote.out[first], result)

\* C7's case: symbolic-ref failed, `remote show origin` printed
\* "  HEAD branch: develop" after another line, origin/main exists, and the
\* call returned develop after exactly the two commands.
C7_Witness ==
    /\ unit = "GetDefaultBranch" /\ pc = "done"
    /\ ~input.sym.ok /\ input.remote.ok
    /\ Len(input.remote.out) = 2
    /\ input.remote.out[2] = HeadLine(<<"d", "e", "v", "e", "l", "o", "p">>)
    /\ <<"m", "a", "i", "n">> \in input.refs
    /\ result = <<"d", "e", "v", "e", "l", "o", "p">>
    /\ ~err
    /\ invoked = <<CmdSymbolicRef, CmdRemoteShow>>

\* A line of `remote show origin` that carries the label and exactly one ":".
OneColonHeadLine(line) ==
    /\ \E i \in 1..(Len(line) - Len(HeadLabel) + 1) :
          SubSeq(line, i, i + Len(HeadLabel) - 1) = HeadLabel
    /\ Cardinality({i \in 1..Len(line) : line[i] = ":"}) = 1

\* All three strategies fail under the given command outcomes.
AllStrategiesFail ==
    /\ ~input.sym.ok
    /\ \/ ~input.remote.ok
       \/ \A i \in 1..Len(input.remote.out) : ~OneColonHeadLine(input.remote.out[i])
    /\ input.refs \cap ProbedNames = {}

\* C8: GetDefaultBranch returns an error if and only if all three strategies
\* fail; in every other outcome it returns without an error.
C8_ErrorIffAllFail ==
    (unit = "GetDefaultBranch" /\ pc = "done") => (err <=> AllStrategiesFail)

\* C8's case: every command was run and failed, and the call returned the error.
C8_Witness ==
    /\ unit = "GetDefaultBranch" /\ pc = "done"
    /\ err
    /\ Len(invoked) = 6
    /\ input.remote.ok /\ Len(input.remote.out) = 2

---------------------------------------------------------------------------
(* GetBranchComparison (internal/git/branch.go:325-347).  input is the     *)
(* outcome of `git rev-list --left-right --count origin/<default>...HEAD`. *)

FormatInt == <<"%", "d">>

\* branch.go:336.
RevListParts(out) == Fields(TrimSpace(out))

\* A slip that reads the first number as ahead and the second as behind.
RevListCountsSwapped(parts) ==
    [ahead  |-> Sscanf(parts[1], FormatInt, <<0>>)[1],
     behind |-> Sscanf(parts[2], FormatInt, <<0>>)[1]]

\* branch.go:343-346: the first field is scanned into behind, the second
\* into ahead.
RevListCounts(parts) ==
    [ahead  |-> Sscanf(parts[2], FormatInt, <<0>>)[1],
     behind |-> Sscanf(parts[1], FormatInt, <<0>>)[1]]

(* Inputs of GetBranchComparison.                                          *)
MaxRevCount == 11

\* "<behind>\t<ahead>\n" as git prints the two counts.
RevListOutput(left, right) == Decimal(left) \o <<"\t">> \o Decimal(right) \o <<"\n">>

OddRevListOutputs ==
    {<<>>, <<"5", "\n">>, <<"1", "\t", "2", "\t", "3", "\n">>, <<"x", "\t", "y", "\n">>}

ComparisonInputs ==
    {Failed}
    \cup {Printed(RevListOutput(l, r)) : l \in 0..MaxRevCount, r \in 0..MaxRevCount}
    \cup {Printed(o) : o \in OddRevListOutputs}

InitCompare ==
    /\ unit = "GetBranchComparison"
    /\ pc = "run"
    /\ input \in ComparisonInputs
    /\ pos = 0
    /\ result = [ahead |-> 0, behind |-> 0]
    /\ err = FALSE
    /\ invoked = <<>>

\* branch.go:329-333: the command fails.
CompareCommandFails ==
    /\ unit = "GetBranchComparison" /\ pc = "run"
    /\ ~input.ok
    /\ invoked' = Append(invoked, [cmd |-> "rev-list --left-right --count", arg |-> <<>>])
    /\ result' = [ahead |-> 0, behind |-> 0]
    /\ err' = TRUE
    /\ pc' = "done"
    /\ UNCHANGED <<unit, input, pos>>

\* branch.go:329-330: the command succeeds.
CompareCommandRuns ==
    /\ unit = "GetBranchComparison" /\ pc = "run"
    /\ input.ok
    /\ invoked' = Append(invoked, [cmd |-> "rev-list --left-right --count", arg |-> <<>>])
    /\ pc' = "parse"
    /\ UNCHANGED <<unit, input, pos, result, err>>

\* branch.go:336-339: not exactly two fields.
CompareBadFormat ==
    /\ unit = "GetBranchComparison" /\ pc = "parse"
    /\ Len(RevListParts(input.out)) # 2
    /\ result' = [ahead |-> 0, behind |-> 0]
    /\ err' = TRUE
    /\ pc' = "done"
    /\ UNCHANGED <<unit, input, pos, invoked>>

\* branch.go:343-346: the two fields are scanned and returned.
CompareReturn ==
    /\ unit = "GetBranchComparison" /\ pc = "parse"
    /\ Len(RevListParts(input.out)) = 2
    /\ result' = RevListCounts(RevListParts(input.out))
    /\ err' = FALSE
    /\ pc' = "done"
    /\ UNCHANGED <<unit, input, pos, invoked>>

NextCompare ==
    CompareCommandFails \/ CompareCommandRuns \/ CompareBadFormat \/ CompareReturn

SpecCompare == InitCompare /\ [][NextCompare]_vars

\* The number of maximal runs of non-space characters of a text.
RunCount(text) ==
    Cardinality({i \in 1..Len(text) :
        ~IsSpace(text[i]) /\ (i = 1 \/ IsSpace(text[i - 1]))})

\* C9: the two integers printed by rev-list are mapped by position: the first
\* is returned as behind, the second as ahead, for every pair of non-negative
\* integers; an output that is not exactly two fields is an error with both
\* counts 0.
C9_FirstBehindSecondAhead ==
    (unit = "GetBranchComparison" /\ pc = "done" /\ input.ok) =>
        /\ \A l, r \in 0..MaxRevCount :
              input.out = RevListOutput(l, r) =>
                  ~err /\ result.behind = l /\ result.ahead = r
        /\ RunCount(input.out) # 2 =>
              err /\ result.ahead = 0 /\ result.behind = 0

\* C9's case: rev-list printed "10\t3" and the call returned behind = 10,
\* ahead = 3.
C9_Witness ==
    /\ unit = "GetBranchComparison" /\ pc = "done"
    /\ input.ok /\ input.out = RevListOutput(10, 3)
    /\ ~err /\ result.behind = 10 /\ result.ahead = 3

---------------------------------------------------------------------------
(* The fetches of the dashboard.  Each takes the outcome of its git        *)
(* command and gives [val, err] as the Go function returns (value, error). *)

\* log.go:121-128.
GetCurrentBranch(cmd) ==
    IF ~cmd.ok THEN [val |-> <<>>, err |-> TRUE]
    ELSE [val |-> TrimSpace(cmd.out), err |-> FALSE]

\* status.go:29-89, the whole loop: one record per kept line, in order.
parseStatus(lines) ==
    LET kept == SelectSeq(lines, StatusLineKept)
    IN  [i \in 1..Len(kept) |-> FileChangeOf(kept[i])]

\* status.go:17-26.
GetWorkingTreeStatus(cmd) ==
    IF ~cmd.ok THEN [val |-> <<>>, err |-> TRUE]
    ELSE [val |-> parseStatus(cmd.out), err |-> FALSE]

\* branch.go:154-214, the whole loop: one record per kept line, in order.
parseBranches(lines) ==
    LET kept == SelectSeq(lines, BranchLineKept)
    IN  [i \in 1..Len(kept) |-> BranchOf(kept[i])]

\* branch.go:142-151.
GetBranches(cmd) ==
    IF ~cmd.ok THEN [val |-> <<>>, err |-> TRUE]
    ELSE [val |-> parseBranches(cmd.out), err |-> FALSE]

\* time.Time{} and time.Unix(ts, 0).
ZeroTime == [zero |-> TRUE, unix |-> 0]

UnixTime(ts) == [zero |-> FALSE, unix |-> ts]

\* strconv.ParseInt(s, 10, 64) reports an error.
ParseIntFails(s) ==
    ~ \/ AllDigits(s)
      \/ s # <<>> /\ s[1] \in {"+", "-"} /\ AllDigits(Tail(s))

\* status.go:146-164.
GetLastCommitTime(cmd) ==
    IF ~cmd.ok THEN [val |-> ZeroTime, err |-> TRUE]
    ELSE IF TrimSpace(cmd.out) = <<>> THEN [val |-> ZeroTime, err |-> TRUE]
    ELSE IF ParseIntFails(TrimSpace(cmd.out)) THEN [val |-> ZeroTime, err |-> TRUE]
    ELSE [val |-> UnixTime(ParseIntOrZero(TrimSpace(cmd.out))), err |-> FALSE]

\* make(map[string][2]int): the map with no key.
EmptyStats == [f \in {} |-> <<0, 0>>]

\* A slip that reads a count as Sscanf would: the leading digits.
NumstatCountLeadingDigits(str) ==
    IF str = <<"-">> THEN 0 ELSE DecimalValue(LeadingDigits(str))

\* status.go:192-203: "-" (a binary file) and an unparsable count are 0.
NumstatCount(str) == IF str = <<"-">> THEN 0 ELSE ParseIntOrZero(str)

\* status.go:178-206: the loop of GetLineStats; a later line of the same file
\* overwrites the earlier entry.
RECURSIVE NumstatMap(_)
NumstatMap(lines) ==
    IF lines = <<>> THEN EmptyStats
    ELSE LET before == NumstatMap(SubSeq(lines, 1, Len(lines) - 1))
             fields == Fields(lines[Len(lines)])
         IN  IF Len(fields) < 3 THEN before
             ELSE (fields[3] :> <<NumstatCount(fields[1]), NumstatCount(fields[2])>>)
                      @@ before

\* status.go:168-209.
GetLineStats(cmd) ==
    IF ~cmd.ok THEN [val |-> EmptyStats, err |-> TRUE]
    ELSE [val |-> NumstatMap(cmd.out), err |-> FALSE]

\* part_003:446-451: the sum of column k over the map.
RECURSIVE StatsTotal(_, _)
StatsTotal(stats, k) ==
    IF DOMAIN stats = {} THEN 0
    ELSE LET f == CHOOSE x \in DOMAIN stats : TRUE
         IN  stats[f][k] + StatsTotal([g \in DOMAIN stats \ {f} |-> stats[g]], k)

\* part_003:425-430: the positions of the records the loop stops at.
TrackedCurrent(branches) ==
    {i \in 1..Len(branches) : branches[i].IsCurrent /\ branches[i].Upstream # <<>>}

FirstTrackedCurrent(branches) ==
    CHOOSE i \in TrackedCurrent(branches) : \A j \in TrackedCurrent(branches) : i <= j

Unknown == <<"u", "n", "k", "n", "o", "w", "n">>

(* Inputs of loadData: the outcome of each of the five git commands.       *)
CurrentBranchOutcomes == {Failed, Printed(<<"m", "a", "i", "n", "\n">>), Printed(<<"\n">>)}

StatusOutcomes ==
    {Failed, Printed(<<>>), Printed(<<<<" ", "M", " ", "f">>>>),
     Printed(<<<<"A", " ", " ", "f">>, <<"?", "?", " ", "g">>>>)}

ListingOutcomes ==
    {Failed, Printed(<<>>), Printed(<<ScenarioLine>>),
     Printed(<<PlainLine(Star, <<"m">>, <<"a", "1">>, <<"f", "i", "x">>)>>),
     Printed(<<ShapeLine(<<" ">>, <<"m">>, <<"a", "1">>, <<"o", "/", "m">>, <<"f", "i", "x">>),
               ShapeLine(Star, <<"f">>, <<"a", "1">>,
                         AnnotationBehind(<<"o", "/", "f">>, <<" ">>, 3), <<"f", "i", "x">>)>>)}

CommitTimeOutcomes ==
    {Failed, Printed(<<"1", "7", "0", "0", "\n">>), Printed(<<"\n">>), Printed(<<"x", "\n">>)}

NumstatOutcomes ==
    {Failed, Printed(<<>>), Printed(<<<<"3", "\t", "1", "\t", "f">>>>),
     Printed(<<<<"3", "\t", "1", "\t", "f">>, <<"-", "\t", "-", "\t", "b">>, <<"2", "\t", "0", "\t", "g">>>>)}

LoadInputs ==
    [branch  : CurrentBranchOutcomes,
     status  : StatusOutcomes,
     listing : ListingOutcomes,
     time    : CommitTimeOutcomes,
     numstat : NumstatOutcomes]

\* The locals of loadData before any of them is assigned.
LoadLocals ==
    [type |-> "none", branch |-> <<>>, files |-> <<>>, aheadCount |-> 0, behindCount |-> 0,
     lastCommitTime |-> ZeroTime, linesAdded |-> 0, linesDeleted |-> 0,
     fileStats |-> EmptyStats]

InitLoad ==
    /\ unit = "loadData"
    /\ pc = "branch"
    /\ input \in LoadInputs
    /\ pos = 0
    /\ result = LoadLocals
    /\ err = FALSE
    /\ invoked = <<>>

\* part_003:411: the fetch succeeds.
LoadBranchOk ==
    /\ unit = "loadData" /\ pc = "branch"
    /\ ~GetCurrentBranch(input.branch).err
    /\ result' = [result EXCEPT !.branch = GetCurrentBranch(input.branch).val]
    /\ err' = FALSE
    /\ pc' = "files"
    /\ UNCHANGED <<unit, input, pos, invoked>>

\* part_003:411-414: the fetch fails.
LoadBranchFail ==
    /\ unit = "loadData" /\ pc = "branch"
    /\ GetCurrentBranch(input.branch).err
    /\ result' = [result EXCEPT !.branch = Unknown]
    /\ err' = TRUE
    /\ pc' = "files"
    /\ UNCHANGED <<unit, input, pos, invoked>>

\* part_003:416: the fetch succeeds.
LoadFilesOk ==
    /\ unit = "loadData" /\ pc = "files"
    /\ ~GetWorkingTreeStatus(input.status).err
    /\ result' = [result EXCEPT !.files = GetWorkingTreeStatus(input.status).val]
    /\ err' = FALSE
    /\ pc' = "branches"
    /\ UNCHANGED <<unit, input, pos, invoked>>

\* A failed status fetch that ends loadData with an error message.
LoadFilesFailAborts ==
    /\ unit = "loadData" /\ pc = "files"
    /\ GetWorkingTreeStatus(input.status).err
    /\ result' = [result EXCEPT !.type = "errMsg"]
    /\ err' = TRUE
    /\ pc' = "done"
    /\ UNCHANGED <<unit, input, pos, invoked>>

\* part_003:416-419: the fetch fails.
LoadFilesFail ==
    /\ unit = "loadData" /\ pc = "files"
    /\ GetWorkingTreeStatus(input.status).err
    /\ result' = [result EXCEPT !.files = <<>>]
    /\ err' = TRUE
    /\ pc' = "branches"
    /\ UNCHANGED <<unit, input, pos, invoked>>

\* part_003:422-430: the listing has a current branch with an upstream.
LoadUpstreamFound ==
    /\ unit = "loadData" /\ pc = "branches"
    /\ ~GetBranches(input.listing).err
    /\ TrackedCurrent(GetBranches(input.listing).val) # {}
    /\ LET branches == GetBranches(input.listing).val
           b == branches[FirstTrackedCurrent(branches)]
       IN  result' = [result EXCEPT !.aheadCount = parseUpstream(b.Upstream)[1],
                                    !.behindCount = parseUpstream(b.Upstream)[2]]
    /\ err' = FALSE
    /\ pc' = "time"
    /\ UNCHANGED <<unit, input, pos, invoked>>

\* part_003:422-431: the loop ends without a current branch with an upstream.
LoadUpstreamNone ==
    /\ unit = "loadData" /\ pc = "branches"
    /\ ~GetBranches(input.listing).err
    /\ TrackedCurrent(GetBranches(input.listing).val) = {}
    /\ result' = [result EXCEPT !.aheadCount = 0, !.behindCount = 0]
    /\ err' = FALSE
    /\ pc' = "time"
    /\ UNCHANGED <<unit, input, pos, invoked>>

\* part_003:422-424: the listing fails.
LoadUpstreamFail ==
    /\ unit = "loadData" /\ pc = "branches"
    /\ GetBranches(input.listing).err
    /\ result' = [result EXCEPT !.aheadCount = 0, !.behindCount = 0]
    /\ err' = TRUE
    /\ pc' = "time"
    /\ UNCHANGED <<unit, input, pos, invoked>>

\* part_003:434: the fetch succeeds.
LoadTimeOk ==
    /\ unit = "loadData" /\ pc = "time"
    /\ ~GetLastCommitTime(input.time).err
    /\ result' = [result EXCEPT !.lastCommitTime = GetLastCommitTime(input.time).val]
    /\ err' = FALSE
    /\ pc' = "stats"
    /\ UNCHANGED <<unit, input, pos, invoked>>

\* part_003:434-437: the fetch fails.
LoadTimeFail ==
    /\ unit = "loadData" /\ pc = "time"
    /\ GetLastCommitTime(input.time).err
    /\ result' = [result EXCEPT !.lastCommitTime = ZeroTime]
    /\ err' = TRUE
    /\ pc' = "stats"
    /\ UNCHANGED <<unit, input, pos, invoked>>

\* part_003:440: the fetch succeeds.
LoadStatsOk ==
    /\ unit = "loadData" /\ pc = "stats"
    /\ ~GetLineStats(input.numstat).err
    /\ result' = [result EXCEPT !.fileStats = GetLineStats(input.numstat).val]
    /\ err' = FALSE
    /\ pc' = "totals"
    /\ UNCHANGED <<unit, input, pos, invoked>>

\* part_003:440-443: the fetch fails.
LoadStatsFail ==
    /\ unit = "loadData" /\ pc = "stats"
    /\ GetLineStats(input.numstat).err
    /\ result' = [result EXCEPT !.fileStats = EmptyStats]
    /\ err' = TRUE
    /\ pc' = "totals"
    /\ UNCHANGED <<unit, input, pos, invoked>>

\* part_003:446-453: the totals are summed and the message is returned.
LoadReturn ==
    /\ unit = "loadData" /\ pc = "totals"
    /\ result' = [result EXCEPT !.type = "dashboardDataMsg",
                                !.linesAdded = StatsTotal(result.fileStats, 1),
                                !.linesDeleted = StatsTotal(result.fileStats, 2)]
    /\ pc' = "done"
    /\ UNCHANGED <<unit, input, pos, err, invoked>>

NextLoad ==
    \/ LoadBranchOk \/ LoadBranchFail
    \/ LoadFilesOk \/ LoadFilesFail
    \/ LoadUpstreamFound \/ LoadUpstreamNone \/ LoadUpstreamFail
    \/ LoadTimeOk \/ LoadTimeFail
    \/ LoadStatsOk \/ LoadStatsFail
    \/ LoadReturn

SpecLoad == InitLoad /\ [][NextLoad]_vars

\* C10: loadData always ends with a dashboardDataMsg, never an error message,
\* whichever fetches fail: a failed current-branch fetch gives "unknown", a
\* failed status fetch an empty file list, a failed branch listing
\* ahead = behind = 0, a failed line-stat fetch an empty map, and every value
\* is determined by the outcome of its own fetch alone.
C10_DegradesPerCategory ==
    (unit = "loadData" /\ pc = "done") =>
        /\ result.type = "dashboardDataMsg"
        /\ result.branch = (IF input.branch.ok THEN TrimSpace(input.branch.out) ELSE Unknown)
        /\ result.files = (IF input.status.ok THEN parseStatus(input.status.out) ELSE <<>>)
        /\ ~input.listing.ok => result.aheadCount = 0 /\ result.behindCount = 0
        /\ <<result.aheadCount, result.behindCount>> =
              (IF input.listing.ok /\ TrackedCurrent(parseBranches(input.listing.out)) # {}
               THEN LET branches == parseBranches(input.listing.out)
                    IN  parseUpstream(branches[FirstTrackedCurrent(branches)].Upstream)
               ELSE <<0, 0>>)
        /\ result.lastCommitTime = GetLastCommitTime(input.time).val
        /\ result.fileStats = (IF input.numstat.ok THEN NumstatMap(input.numstat.out) ELSE EmptyStats)
        /\ ~input.numstat.ok => result.linesAdded = 0 /\ result.linesDeleted = 0

\* C10's case: the current-branch fetch, the branch listing and the commit
\* time failed, the other two succeeded, and the message carries "unknown",
\* zero counts, the two files and the line totals 5 and 1.
C10_Witness ==
    /\ unit = "loadData" /\ pc = "done"
    /\ ~input.branch.ok /\ ~input.listing.ok /\ ~input.time.ok
    /\ input.status.ok /\ input.numstat.ok
    /\ result.type = "dashboardDataMsg"
    /\ result.branch = Unknown
    /\ Len(result.files) = 2
    /\ result.aheadCount = 0 /\ result.behindCount = 0
    /\ result.linesAdded = 5 /\ result.linesDeleted = 1

---------------------------------------------------------------------------
(* GetLineStats (internal/git/status.go:168-209), line by line.  input is  *)
(* the outcome of `git diff --numstat`; result is the map built so far.    *)

\* status.go:180-183.
NumstatLineKept(line) == Len(Fields(line)) >= 3

\* status.go:185-205: the entry a kept line stores.
NumstatEntry(line) ==
    <<NumstatCount(Fields(line)[1]), NumstatCount(Fields(line)[2])>>

(* Inputs of GetLineStats.                                                 *)
MaxNumstatLines == 2

ColumnTexts == {<<"3">>, <<"-">>, <<"1", "x">>, <<"-", "2">>, <<"1", "2">>}

NumstatLine(added, deleted, path) == added \o <<"\t">> \o deleted \o <<"\t">> \o path

NumstatLines ==
    {NumstatLine(a, d, <<"f">>) : a \in ColumnTexts, d \in ColumnTexts}
    \cup {NumstatLine(a, <<"0">>, <<"g">>) : a \in ColumnTexts}
    \cup {NumstatLine(<<"3">>, <<"1">>, <<"m", "y", " ", "f", "i", "l", "e">>),
          <<>>, <<"3", "\t", "1">>, <<"x">>}

LineStatsInputs ==
    {Failed} \cup {Printed(o) : o \in SeqsUpTo(NumstatLines, MaxNumstatLines)}

InitLineStats ==
    /\ unit = "GetLineStats"
    /\ pc = "run"
    /\ input \in LineStatsInputs
    /\ pos = 0
    /\ result = EmptyStats
    /\ err = FALSE
    /\ invoked = <<>>

\* status.go:169-173: the command fails.
LineStatsCommandFails ==
    /\ unit = "GetLineStats" /\ pc = "run"
    /\ ~input.ok
    /\ err' = TRUE
    /\ pc' = "done"
    /\ UNCHANGED <<unit, input, pos, result, invoked>>

\* status.go:169-176: the command succeeds and the scan starts.
LineStatsCommandRuns ==
    /\ unit = "GetLineStats" /\ pc = "run"
    /\ input.ok
    /\ pc' = "scan"
    /\ UNCHANGED <<unit, input, pos, result, err, invoked>>

\* status.go:178-183: a line with fewer than 3 fields is passed over.
LineStatsSkip ==
    /\ unit = "GetLineStats" /\ pc = "scan"
    /\ pos < Len(input.out)
    /\ ~NumstatLineKept(input.out[pos + 1])
    /\ pos' = pos + 1
    /\ UNCHANGED <<unit, pc, input, result, err, invoked>>

\* status.go:185-205: the entry of a kept line is stored under field 2.
LineStatsRecord ==
    /\ unit = "GetLineStats" /\ pc = "scan"
    /\ pos < Len(input.out)
    /\ NumstatLineKept(input.out[pos + 1])
    /\ result' = (Fields(input.out[pos + 1])[3] :> NumstatEntry(input.out[pos + 1])) @@ result
    /\ pos' = pos + 1
    /\ UNCHANGED <<unit, pc, input, err, invoked>>

\* status.go:208.
LineStatsReturn ==
    /\ unit = "GetLineStats" /\ pc = "scan"
    /\ pos = Len(input.out)
    /\ pc' = "done"
    /\ UNCHANGED <<unit, input, pos, result, err, invoked>>

NextLineStats ==
    \/ LineStatsCommandFails \/ LineStatsCommandRuns
    \/ LineStatsSkip \/ LineStatsRecord \/ LineStatsReturn

SpecLineStats == InitLineStats /\ [][NextLineStats]_vars

\* The value a numeric column stands for: 0 for the placeholder and for a
\* text that is not an integer, the integer otherwise.
ColumnValue(text) ==
    IF text = <<"-">> \/ ParseIntFails(text) THEN 0 ELSE ParseIntOrZero(text)

\* The tab-separated columns of a numstat line, and its third white-space field.
Columns(line) == Split(line, <<"\t">>)

ThirdField(line) == Fields(line)[3]

\* The lines among the first n that have at least 3 fields.
WideLines(n) == {i \in 1..n : Len(Fields(input.out[i])) >= 3}

C14_CountsNonNegative ==
    unit = "GetLineStats" =>
        \A f \in DOMAIN result : result[f][1] >= 0 /\ result[f][2] >= 0

---------------------------------------------------------------------------
(* Further properties of parseStatus, under SpecStatus.                    *)

\* C12: every record emitted by parseStatus has Status or StagedStatus
\* non-empty; blank lines and lines shorter than 4 characters give no record.
C12_OneStatusNonEmpty ==
    unit = "parseStatus" =>
        /\ Len(result) = Len(KeptStatusLines(pos))
        /\ \A i \in 1..Len(result) :
              result[i].Status # NoStatus \/ result[i].StagedStatus # NoStatus

\* C15 as stated: "M  foo.txt" gives a record that is not staged and whose
\* working-tree status is modified; "A  bar.txt" gives a staged record with
\* status added.
C15_ScenarioAsStated ==
    unit = "parseStatus" =>
        LET kept == KeptStatusLines(pos)
        IN  \A i \in 1..Len(result) :
              /\ kept[i] = StagedModifiedLine =>
                    ~result[i].IsStaged /\ result[i].Status = StatusModified
              /\ kept[i] = StagedAddedLine =>
                    result[i].IsStaged /\ result[i].StagedStatus = StatusAdded

\* C15, by columns: "M  foo.txt" (M in the first column) gives a staged record
\* with staged status modified and no working-tree status; " M foo.txt" (M in
\* the second column) gives a record that is not staged with working-tree
\* status modified; "A  bar.txt" gives a staged record with staged status
\* added and no working-tree status.
C15_ScenarioByColumns ==
    unit = "parseStatus" =>
        LET kept == KeptStatusLines(pos)
        IN  \A i \in 1..Len(result) :
              /\ kept[i] = StagedModifiedLine =>
                    /\ result[i].IsStaged
                    /\ result[i].StagedStatus = StatusModified
                    /\ result[i].Status = NoStatus
                    /\ result[i].Path = <<"f", "o", "o", ".", "t", "x", "t">>
              /\ kept[i] = WorkingModifiedLine =>
                    /\ ~result[i].IsStaged
                    /\ result[i].StagedStatus = NoStatus
                    /\ result[i].Status = StatusModified
                    /\ result[i].Path = <<"f", "o", "o", ".", "t", "x", "t">>
              /\ kept[i] = StagedAddedLine =>
                    /\ result[i].IsStaged
                    /\ result[i].StagedStatus = StatusAdded
                    /\ result[i].Status = NoStatus
                    /\ result[i].Path = <<"b", "a", "r", ".", "t", "x", "t">>

\* C15's case: a finished parse of "M  foo.txt" followed by "A  bar.txt",
\* both records staged.
C15_Witness ==
    /\ unit = "parseStatus" /\ pc = "done"
    /\ input = <<StagedModifiedLine, StagedAddedLine>>
    /\ Len(result) = 2
    /\ result[1].IsStaged /\ result[1].StagedStatus = StatusModified
    /\ result[2].IsStaged /\ result[2].StagedStatus = StatusAdded

\* C18: a line of length >= 4 whose two codes are both outside the code table
\* still gives a record, with its path, both status fields empty and both
\* flags false; parseStatus never returns an error.
C18_UnknownCodesStillEmit ==
    unit = "parseStatus" =>
        /\ ~err
        /\ Len(result) = Cardinality({i \in 1..pos : Len(input[i]) >= 4})
        /\ LET kept == KeptStatusLines(pos)
           IN  \A i \in 1..Len(result) :
                 (kept[i][1] \notin {"M", "A", "D", "R", "C"}
                     /\ kept[i][2] \notin {"M", "D", "?"}) =>
                     /\ result[i].Path = TrimSpace(SliceFrom(kept[i], 3))
                     /\ result[i].Status = NoStatus
                     /\ result[i].StagedStatus = NoStatus
                     /\ ~result[i].IsStaged
                     /\ ~result[i].IsUntracked

\* C18's case: a finished parse of "UA f" (an unmerged path), which gave one
\* record with path f and nothing else set.
C18_Witness ==
    /\ unit = "parseStatus" /\ pc = "done"
    /\ input = <<<<"U", "A", " ", "f">>>>
    /\ Len(result) = 1
    /\ result[1].Path = <<"f">>
    /\ result[1].Status = NoStatus /\ result[1].StagedStatus = NoStatus
    /\ ~result[1].IsStaged /\ ~result[1].IsUntracked
    /\ ~err

---------------------------------------------------------------------------
(* Further properties of parseBranches, under SpecBranch.                  *)

\* C13: every Branch record emitted by parseBranches has a non-empty Name,
\* also after "remotes/" has been stripped from token 0; lines with fewer
\* than two tokens give no record.
C13_NameNonEmpty ==
    unit = "parseBranches" =>
        /\ Len(result) = BranchRecordsOf(pos)
        /\ \A i \in 1..Len(result) : result[i].Name # <<>>

---------------------------------------------------------------------------
(* The order of the strategies of GetDefaultBranch, under SpecDefault.     *)

\* The conventional names in the documented order, and the six commands.
ConventionalNames ==
    <<<<"m", "a", "i", "n">>, <<"m", "a", "s", "t", "e", "r">>, <<"d", "e", "v">>,
      <<"d", "e", "v", "e", "l", "o", "p">>>>

StrategyOrder ==
    <<CmdSymbolicRef, CmdRemoteShow>>
        \o [k \in 1..4 |-> [cmd |-> "rev-parse --verify",
                            arg |-> OriginPrefix \o ConventionalNames[k]]]

\* The k-th command of the order produces a name under the given outcomes.
ProducesName(k) ==
    CASE k = 1 -> input.sym.ok
      [] k = 2 -> /\ input.remote.ok
                  /\ \E i \in 1..Len(input.remote.out) : OneColonHeadLine(input.remote.out[i])
      [] OTHER -> ConventionalNames[k - 2] \in input.refs

\* C19: the commands are run in the order symbolic-ref, remote show origin,
\* rev-parse for main, master, dev, develop; a later one only after every
\* earlier one failed to produce a name, none twice, none after the first
\* success; in strategy 3 the name returned is the earliest that resolves.
C19_StrategiesInOrder ==
    unit = "GetDefaultBranch" =>
        /\ Len(invoked) <= Len(StrategyOrder)
        /\ \A i \in 1..Len(invoked) : invoked[i] = StrategyOrder[i]
        /\ \A i \in 1..(Len(invoked) - 1) : ~ProducesName(i)
        /\ pc = "probe3" => \A i \in 1..Len(invoked) : ~ProducesName(i)
        /\ pc = "done" =>
              IF err THEN Len(invoked) = Len(StrategyOrder) /\ ~ProducesName(Len(invoked))
              ELSE /\ ProducesName(Len(invoked))
                   /\ Len(invoked) >= 3 =>
                         /\ result = ConventionalNames[Len(invoked) - 2]
                         /\ \A k \in 1..4 :
                               ConventionalNames[k] \in input.refs => Len(invoked) - 2 <= k

\* C19's case: the first two strategies failed, origin/main is absent and
\* both origin/master and origin/develop exist; master was returned after
\* exactly four commands.
C19_Witness ==
    /\ unit = "GetDefaultBranch" /\ pc = "done"
    /\ ~input.sym.ok
    /\ input.refs = {<<"m", "a", "s", "t", "e", "r">>, <<"d", "e", "v", "e", "l", "o", "p">>}
    /\ result = <<"m", "a", "s", "t", "e", "r">>
    /\ ~err
    /\ Len(invoked) = 4

---------------------------------------------------------------------------
(* CreateBranchFromDefault (internal/git/branch.go:302-322).               *)

\* branch.go:278-285 as a whole: the positions of the usable lines.
UsableHeadLines(lines) == {i \in 1..Len(lines) : HeadLineUsable(lines[i])}

\* branch.go:290-296 as a whole: the positions of the names that resolve.
ResolvingDefaults(refs) == {k \in 1..Len(commonDefaults) : commonDefaults[k] \in refs}

\* The least element of a non-empty set of positions.
Least(S) == CHOOSE i \in S : \A j \in S : i <= j

\* GetDefaultBranch (branch.go:260-299) as a whole: the name, the error and
\* the commands run, for given outcomes of the commands.
GetDefaultBranch(in) ==
    IF in.sym.ok THEN
        [name |-> SymbolicRefBranch(in.sym.out), err |-> FALSE, cmds |-> <<CmdSymbolicRef>>]
    ELSE IF in.remote.ok /\ UsableHeadLines(in.remote.out) # {} THEN
        [name |-> HeadLineBranch(in.remote.out[Least(UsableHeadLines(in.remote.out))]),
         err  |-> FALSE,
         cmds |-> <<CmdSymbolicRef, CmdRemoteShow>>]
    ELSE IF ResolvingDefaults(in.refs) # {} THEN
        [name |-> commonDefaults[Least(ResolvingDefaults(in.refs))],
         err  |-> FALSE,
         cmds |-> <<CmdSymbolicRef, CmdRemoteShow>>
                     \o [k \in 1..Least(ResolvingDefaults(in.refs)) |-> CmdRevParse(commonDefaults[k])]]
    ELSE
        [name |-> <<>>, err |-> TRUE,
         cmds |-> <<CmdSymbolicRef, CmdRemoteShow>>
                     \o [k \in 1..Len(commonDefaults) |-> CmdRevParse(commonDefaults[k])]]

\* branch.go:310 and 316.
CmdFetch(default) == [cmd |-> "fetch origin", arg |-> default]

CmdCheckout(name, default) ==
    [cmd |-> "checkout -b", arg |-> name \o <<" ">> \o OriginPrefix \o default]

(* Inputs of CreateBranchFromDefault: the new branch's name and the        *)
(* outcomes of the commands.                                               *)
NewBranchNames == {<<"x">>, <<"f", "e", "a", "t", "u", "r", "e", "/", "y">>}

CreateProbeInputs ==
    [sym    : {Failed, Printed(<<"o", "r", "i", "g", "i", "n", "/", "m", "a", "i", "n", "\n">>)},
     remote : {Failed, Printed(<<HeadLine(<<"d", "e", "v", "e", "l", "o", "p">>)>>)},
     refs   : SUBSET ProbedNames]

CreateInputs ==
    [name : NewBranchNames, probe : CreateProbeInputs,
     fetchOk : BOOLEAN, checkoutOk : BOOLEAN]

InitCreate ==
    /\ unit = "CreateBranchFromDefault"
    /\ pc = "resolve"
    /\ input \in CreateInputs
    /\ pos = 0
    /\ result = <<>>
    /\ err = FALSE
    /\ invoked = <<>>

\* branch.go:304-307: the default branch cannot be resolved.
CreateResolveFails ==
    /\ unit = "CreateBranchFromDefault" /\ pc = "resolve"
    /\ GetDefaultBranch(input.probe).err
    /\ invoked' = invoked \o GetDefaultBranch(input.probe).cmds
    /\ err' = TRUE
    /\ pc' = "done"
    /\ UNCHANGED <<unit, input, pos, result>>

\* branch.go:304: the default branch is resolved.
CreateResolveOk ==
    /\ unit = "CreateBranchFromDefault" /\ pc = "resolve"
    /\ ~GetDefaultBranch(input.probe).err
    /\ invoked' = invoked \o GetDefaultBranch(input.probe).cmds
    /\ result' = GetDefaultBranch(input.probe).name
    /\ pc' = "fetch"
    /\ UNCHANGED <<unit, input, pos, err>>

\* A slip that goes on to the checkout although the fetch failed.
CreateFetchFailsContinues ==
    /\ unit = "CreateBranchFromDefault" /\ pc = "fetch"
    /\ ~input.fetchOk
    /\ invoked' = Append(invoked, CmdFetch(result))
    /\ pc' = "checkout"
    /\ UNCHANGED <<unit, input, pos, result, err>>

\* branch.go:310-313: the fetch fails.
CreateFetchFails ==
    /\ unit = "CreateBranchFromDefault" /\ pc = "fetch"
    /\ ~input.fetchOk
    /\ invoked' = Append(invoked, CmdFetch(result))
    /\ err' = TRUE
    /\ pc' = "done"
    /\ UNCHANGED <<unit, input, pos, result>>

\* branch.go:310-311: the fetch succeeds.
CreateFetchOk ==
    /\ unit = "CreateBranchFromDefault" /\ pc = "fetch"
    /\ input.fetchOk
    /\ invoked' = Append(invoked, CmdFetch(result))
    /\ pc' = "checkout"
    /\ UNCHANGED <<unit, input, pos, result, err>>

\* branch.go:316-319: the checkout fails.
CreateCheckoutFails ==
    /\ unit = "CreateBranchFromDefault" /\ pc = "checkout"
    /\ ~input.checkoutOk
    /\ invoked' = Append(invoked, CmdCheckout(input.name, result))
    /\ err' = TRUE
    /\ pc' = "done"
    /\ UNCHANGED <<unit, input, pos, result>>

\* branch.go:316-321: the checkout succeeds.
CreateCheckoutOk ==
    /\ unit = "CreateBranchFromDefault" /\ pc = "checkout"
    /\ input.checkoutOk
    /\ invoked' = Append(invoked, CmdCheckout(input.name, result))
    /\ err' = FALSE
    /\ pc' = "done"
    /\ UNCHANGED <<unit, input, pos, result>>

NextCreate ==
    \/ CreateResolveFails \/ CreateResolveOk
    \/ CreateFetchFails \/ CreateFetchOk
    \/ CreateCheckoutFails \/ CreateCheckoutOk

SpecCreate == InitCreate /\ [][NextCreate]_vars

\* The positions of the commands of a kind among those run.
RunsOf(kind) == {i \in 1..Len(invoked) : invoked[i].cmd = kind}

ProbeKinds == {"symbolic-ref", "remote show origin", "rev-parse --verify"}

\* Some command of the resolution gives a name under the outcomes.
DefaultResolves ==
    \/ input.probe.sym.ok
    \/ input.probe.remote.ok
    \/ input.probe.refs # {}

\* C20: the steps run in the order resolve, fetch origin <default>,
\* checkout -b <name> origin/<default>: the fetch only after the default
\* branch was resolved, the checkout only after the fetch succeeded, and a
\* failure at any step returns an error without running a later step.
C20_StepsInOrder ==
    unit = "CreateBranchFromDefault" =>
        /\ Cardinality(RunsOf("fetch origin")) <= 1
        /\ Cardinality(RunsOf("checkout -b")) <= 1
        /\ \A i \in RunsOf("fetch origin") :
              /\ DefaultResolves
              /\ i > 1
              /\ \A j \in 1..(i - 1) : invoked[j].cmd \in ProbeKinds
              /\ invoked[i].arg = result
        /\ \A i \in RunsOf("checkout -b") :
              /\ input.fetchOk
              /\ i - 1 \in RunsOf("fetch origin")
              /\ i = Len(invoked)
              /\ invoked[i].arg = input.name \o <<" ">> \o OriginPrefix \o result
        /\ pc = "done" =>
              /\ err <=> (~DefaultResolves \/ ~input.fetchOk \/ ~input.checkoutOk)
              /\ ~DefaultResolves => RunsOf("fetch origin") = {} /\ RunsOf("checkout -b") = {}
              /\ (DefaultResolves /\ ~input.fetchOk) =>
                    RunsOf("fetch origin") # {} /\ RunsOf("checkout -b") = {}
              /\ (DefaultResolves /\ input.fetchOk) => RunsOf("checkout -b") # {}

\* C20's case: the default branch was resolved by strategy 3, the fetch
\* failed, and the call returned the error with the fetch as its last command.
C20_Witness ==
    /\ unit = "CreateBranchFromDefault" /\ pc = "done"
    /\ ~input.probe.sym.ok /\ ~input.probe.remote.ok
    /\ ~input.fetchOk /\ input.checkoutOk
    /\ result = <<"m", "a", "s", "t", "e", "r">>
    /\ err
    /\ invoked[Len(invoked)] = CmdFetch(<<"m", "a", "s", "t", "e", "r">>)
    /\ RunsOf("checkout -b") = {}

---------------------------------------------------------------------------
(* The root model (internal/ui/app.go).  The file holds the root model     *)
(* with the branch input view (lines 162-311) and without it (lines        *)
(* 313-389); input.branchInput tells which one runs.  result holds the     *)
(* Model's fields and the messages the runtime has still to deliver;       *)
(* invoked is the set of git commands run so far.                          *)

\* CreateBranchFromDefault (branch.go:302-322) as a whole: the error and the
\* commands run.
CreateBranchFromDefault(name, in) ==
    LET d == GetDefaultBranch(in.probe)
    IN  IF d.err THEN [err |-> TRUE, cmds |-> d.cmds]
        ELSE IF ~in.fetchOk THEN [err |-> TRUE, cmds |-> Append(d.cmds, CmdFetch(d.name))]
        ELSE [err  |-> ~in.checkoutOk,
              cmds |-> d.cmds \o <<CmdFetch(d.name), CmdCheckout(name, d.name)>>]

\* part_003:411-440: the git commands of one loadData.
LoadDataCommands ==
    {"branch --show-current", "status --porcelain=v1", "branch -vv --all",
     "log -1 --format=%ct", "diff --numstat"}

\* The messages of one kind that the runtime may hold undelivered at a time.
MaxPending == 2

\* The outcomes of the commands of one branch creation.
CreationOutcomes ==
    [probe : [sym : {Failed}, remote : {Failed},
              refs : {{}, {<<"m", "a", "i", "n">>}}],
     fetchOk : BOOLEAN, checkoutOk : BOOLEAN]

TypedName == <<"x">>

\* app.go:197-202 and 333-337: NewModel.
NewModel ==
    [viewMode |-> "viewDashboard", branchInput |-> "nil", text |-> <<>>,
     statusMsg |-> "", quit |-> FALSE, last |-> "none",
     ticks |-> 0, loads |-> 0, clears |-> 0, dones |-> 0, cancels |-> 0]

\* app.go:204-209 and 339-344: Init batches the first loadData and the first
\* tick.
InitApp ==
    /\ unit = "Model"
    /\ pc = "running"
    /\ input \in [branchInput : BOOLEAN]
    /\ pos = 0
    /\ result = [NewModel EXCEPT !.ticks = 1, !.loads = 1]
    /\ err = FALSE
    /\ invoked = LoadDataCommands

Running == unit = "Model" /\ pc = "running" /\ ~result.quit

\* The keys forwarded to the branch input view when it is active.
InputActive ==
    input.branchInput /\ result.viewMode = "viewBranchInput" /\ result.branchInput # "nil"

\* app.go:220-222 and 356-358: Ctrl+C quits.
KeyCtrlC ==
    /\ Running
    /\ result' = [result EXCEPT !.quit = TRUE, !.last = "ctrl+c"]
    /\ UNCHANGED <<unit, pc, input, pos, err, invoked>>

\* app.go:223-231: "n" in dashboard mode opens the branch input view.
KeyNOpensInput ==
    /\ Running
    /\ input.branchInput /\ result.viewMode = "viewDashboard"
    /\ result' = [result EXCEPT !.branchInput = "view", !.viewMode = "viewBranchInput",
                                !.text = <<>>, !.statusMsg = "", !.last = "n"]
    /\ UNCHANGED <<unit, pc, input, pos, err, invoked>>

\* app.go:354-359 and 296: a key no case matches and no view receives.
KeyIgnored ==
    /\ Running
    /\ ~InputActive
    /\ \E key \in (IF input.branchInput THEN {"q", "enter"} ELSE {"q", "enter", "n"}) :
          result' = [result EXCEPT !.last = key]
    /\ UNCHANGED <<unit, pc, input, pos, err, invoked>>

\* app.go:290-293, part_001:58-59: a character key reaches the text input.
KeyTyped ==
    /\ Running
    /\ InputActive
    /\ result' = [result EXCEPT !.text = TypedName, !.last = "char"]
    /\ UNCHANGED <<unit, pc, input, pos, err, invoked>>

\* app.go:290-293, part_001:42-48: enter submits a non-empty name.
KeyEnter ==
    /\ Running
    /\ InputActive
    /\ result.text # <<>> => result.dones < MaxPending
    /\ result' = [result EXCEPT
                     !.dones = IF result.text # <<>> THEN @ + 1 ELSE @,
                     !.last = "enter"]
    /\ UNCHANGED <<unit, pc, input, pos, err, invoked>>

\* app.go:290-293, part_001:49-50: esc cancels.
KeyEsc ==
    /\ Running
    /\ InputActive
    /\ result.cancels < MaxPending
    /\ result' = [result EXCEPT !.cancels = @ + 1, !.last = "esc"]
    /\ UNCHANGED <<unit, pc, input, pos, err, invoked>>

\* app.go:234-250: the branch is created, then data is reloaded and the
\* status line is cleared 3 seconds later.
BranchInputDone ==
    /\ Running
    /\ result.dones > 0
    /\ result.loads < MaxPending /\ result.clears < MaxPending
    /\ \E in \in CreationOutcomes :
          LET made == CreateBranchFromDefault(result.text, in)
          IN  /\ invoked' = invoked \cup {made.cmds[i].cmd : i \in 1..Len(made.cmds)}
                                    \cup LoadDataCommands
              /\ result' = [result EXCEPT
                               !.dones = @ - 1, !.viewMode = "viewDashboard",
                               !.branchInput = "nil",
                               !.statusMsg = IF made.err THEN "Error" ELSE "Created",
                               !.loads = @ + 1, !.clears = @ + 1,
                               !.last = "branchInputDoneMsg"]
    /\ UNCHANGED <<unit, pc, input, pos, err>>

\* app.go:252-255.
BranchInputCancel ==
    /\ Running
    /\ result.cancels > 0
    /\ result' = [result EXCEPT !.cancels = @ - 1, !.viewMode = "viewDashboard",
                                !.branchInput = "nil", !.last = "branchInputCancelMsg"]
    /\ UNCHANGED <<unit, pc, input, pos, err, invoked>>

\* app.go:257-259.
ClearStatus ==
    /\ Running
    /\ result.clears > 0
    /\ result' = [result EXCEPT !.clears = @ - 1, !.statusMsg = "",
                                !.last = "clearStatusMsg"]
    /\ UNCHANGED <<unit, pc, input, pos, err, invoked>>

\* app.go:261-264 and 361-364: the loaded data is forwarded to the dashboard.
DashboardData ==
    /\ Running
    /\ result.loads > 0
    /\ result' = [result EXCEPT !.loads = @ - 1, !.last = "dashboardDataMsg"]
    /\ UNCHANGED <<unit, pc, input, pos, err, invoked>>

\* A tick that reloads the data and schedules no next tick.
TickWithoutNext ==
    /\ Running
    /\ result.ticks > 0
    /\ result.loads < MaxPending
    /\ result' = [result EXCEPT !.ticks = @ - 1, !.loads = @ + 1, !.last = "tickMsg"]
    /\ invoked' = invoked \cup LoadDataCommands
    /\ UNCHANGED <<unit, pc, input, pos, err>>

\* app.go:274-282 and 371-376: a tick schedules the next tick and, in
\* dashboard mode, one loadData.
Tick ==
    /\ Running
    /\ result.ticks > 0
    /\ LET reload == ~input.branchInput \/ result.viewMode = "viewDashboard"
       IN  /\ reload => result.loads < MaxPending
           /\ result' = [result EXCEPT
                            !.ticks = (@ - 1) + 1,
                            !.loads = IF reload THEN @ + 1 ELSE @,
                            !.last = "tickMsg"]
           /\ invoked' = IF reload THEN invoked \cup LoadDataCommands ELSE invoked
    /\ UNCHANGED <<unit, pc, input, pos, err>>

NextApp ==
    \/ KeyCtrlC \/ KeyNOpensInput \/ KeyIgnored \/ KeyTyped \/ KeyEnter \/ KeyEsc
    \/ BranchInputDone \/ BranchInputCancel \/ ClearStatus \/ DashboardData
    \/ Tick

SpecApp == InitApp /\ [][NextApp]_vars

MutatingCommands ==
    {"commit", "checkout", "checkout -b", "switch", "branch -c", "add", "restore",
     "fetch origin"}

\* C17: the application is read-only: whatever keys and messages the root
\* model handles, no mutating git command is run, and no key but Ctrl+C
\* makes the root model do anything.
C17_ReadOnly ==
    unit = "Model" =>
        /\ invoked \cap MutatingCommands = {}
        /\ result.last \in {"n", "q", "enter", "esc", "char"} =>
              /\ result.viewMode = "viewDashboard"
              /\ result.branchInput = "nil"
              /\ result.dones = 0 /\ result.cancels = 0

---------------------------------------------------------------------------
(* The upstream annotation and the last commit text, under SpecBranch.     *)

\* The positions of a character in a line, and the least of them.
PositionsOf(c, line) == {k \in 1..Len(line) : line[k] = c}

FirstOf(c, line) == CHOOSE k \in PositionsOf(c, line) : \A j \in PositionsOf(c, line) : k <= j

\* The line has a third token, and it begins with "[".
ThirdTokenOpens(line) ==
    LET toks == Fields(BranchStripMarker(line))
    IN  Len(toks) >= 3 /\ toks[3][1] = "["

\* C21: Upstream is non-empty only when the line has a third token that
\* begins with "[", and then it is exactly the text between the first "[" and
\* the first "]" of the line; otherwise Upstream is empty.
C21_UpstreamIsFirstBracketText ==
    unit = "parseBranches" =>
        \A i \in 1..pos :
            BranchLineKept(input[i]) =>
                LET rec  == result[BranchRecordsOf(i)]
                    line == input[i]
                IN  /\ ~ThirdTokenOpens(line) => rec.Upstream = <<>>
                    /\ rec.Upstream # <<>> =>
                          /\ ThirdTokenOpens(line)
                          /\ PositionsOf("]", line) # {}
                          /\ rec.Upstream = SubSeq(line, FirstOf("[", line) + 1,
                                                   FirstOf("]", line) - 1)

\* C21's case: a finished parse of "* m a1 [o/m] fix [ci] x", whose Upstream
\* is o/m, and of " m a1 [wip", whose Upstream is empty.
C21_Witness ==
    /\ unit = "parseBranches" /\ pc = "done"
    /\ Len(input) = 2 /\ Len(result) = 2
    /\ input[1] = ShapeLine(Star, <<"m">>, <<"a", "1">>, <<"o", "/", "m">>,
                            <<"f", "i", "x", " ", "[", "c", "i", "]", " ", "x">>)
    /\ input[2] = PlainLine(<<" ">>, <<"m">>, <<"a", "1">>, <<"[", "w", "i", "p">>)
    /\ result[1].Upstream = <<"o", "/", "m">>
    /\ result[2].Upstream = <<>>

\* The text after the first occurrence of the hash, less a bracketed segment
\* that opens it, trimmed: what the last commit text is said to be.
MessageAfterHash(line, hash) ==
    LET rest  == TrimSpace(SliceFrom(line, Index(line, hash) + Len(hash)))
        close == Index(rest, <<"]">>)
    IN  IF HasPrefix(rest, <<"[">>) /\ close > 0
        THEN TrimSpace(SliceFrom(rest, close + 1))
        ELSE rest

\* C22: LastCommit of every emitted record is the text after the first
\* occurrence of the hash with only a leading bracketed segment removed, then
\* trimmed; brackets inside the commit message are never removed.
C22_LastCommitKeepsMessage ==
    unit = "parseBranches" =>
        \A i \in 1..pos :
            BranchLineKept(input[i]) =>
                LET rec == result[BranchRecordsOf(i)]
                IN  rec.LastCommit = MessageAfterHash(input[i], rec.Hash)

---------------------------------------------------------------------------
(* BranchView: the list of local branches and its rendering.               *)

HashWidth == 7

LongHash == <<"a", "1", "b", "2", "c", "3", "d">>

\* Listings of `git branch -vv --all` with seven-character hashes, a hash
\* abbreviated to four characters, a remote-tracking branch and a branch
\* checked out in another worktree.
ViewLines ==
    {ScenarioLine,
     PlainLine(<<" ">>, <<"d", "e", "v">>, LongHash, <<"f", "i", "x">>),
     PlainLine(<<" ">>, <<"r", "e", "m", "o", "t", "e", "s", "/", "o", "/", "m">>, LongHash, <<"f", "i", "x">>),
     PlainLine(<<" ">>, <<"d", "e", "v">>, <<"a", "1", "b", "2">>, <<"f", "i", "x">>),
     WorktreeLine,
     <<>>}

ViewInputs ==
    {Failed} \cup {Printed(ls) : ls \in UNION {[1..n -> ViewLines] : n \in 0..MaxBranchLines}}

\* The filter of Update's branchesLoadedMsg case.
LocalOnly(branches) == SelectSeq(branches, LAMBDA b : ~b.IsRemote)

\* One rendered row of View's loop.
ViewRow(branch, selected) ==
    [current  |-> branch.IsCurrent,
     name     |-> branch.Name,
     hash     |-> SubSeq(branch.Hash, 1, HashWidth),
     upstream |-> branch.Upstream,
     last     |-> branch.LastCommit,
     selected |-> selected]

InitBranchView ==
    /\ unit = "BranchView"
    /\ pc = "load"
    /\ input \in ViewInputs
    /\ pos = 0
    /\ result = [localOnly |-> <<>>, cursor |-> 0, out |-> <<>>]
    /\ err = FALSE
    /\ invoked = <<>>

\* loadBranches when git.GetBranches fails: an errMsg, which Update ignores.
LoadBranchesFails ==
    /\ unit = "BranchView" /\ pc = "load"
    /\ GetBranches(input).err
    /\ pc' = "view"
    /\ UNCHANGED <<unit, input, pos, result, err, invoked>>

\* loadBranches, then Update's branchesLoadedMsg case.
BranchesLoaded ==
    /\ unit = "BranchView" /\ pc = "load"
    /\ ~GetBranches(input).err
    /\ result' = [result EXCEPT !.localOnly = LocalOnly(GetBranches(input).val)]
    /\ pc' = "view"
    /\ UNCHANGED <<unit, input, pos, err, invoked>>

\* View with no local branch to show.
ViewLoading ==
    /\ unit = "BranchView" /\ pc = "view"
    /\ Len(result.localOnly) = 0
    /\ result' = [result EXCEPT !.out = <<"Loading branches...">>]
    /\ pc' = "done"
    /\ UNCHANGED <<unit, input, pos, err, invoked>>

\* One iteration of View's loop whose slice Hash[:7] is in range.
ViewRenderRow ==
    /\ unit = "BranchView" /\ pc = "view"
    /\ pos < Len(result.localOnly)
    /\ Len(result.localOnly[pos + 1].Hash) >= HashWidth
    /\ result' = [result EXCEPT !.out =
                      Append(@, ViewRow(result.localOnly[pos + 1], pos = result.cursor))]
    /\ pos' = pos + 1
    /\ UNCHANGED <<unit, pc, input, err, invoked>>

\* One iteration of View's loop whose slice Hash[:7] is out of range: the
\* run-time panic of Go's slice expression.
ViewPanics ==
    /\ unit = "BranchView" /\ pc = "view"
    /\ pos < Len(result.localOnly)
    /\ Len(result.localOnly[pos + 1].Hash) < HashWidth
    /\ pc' = "panic"
    /\ err' = TRUE
    /\ UNCHANGED <<unit, input, pos, result, invoked>>

\* View returns the rows it wrote.
ViewReturn ==
    /\ unit = "BranchView" /\ pc = "view"
    /\ Len(result.localOnly) > 0
    /\ pos = Len(result.localOnly)
    /\ pc' = "done"
    /\ UNCHANGED <<unit, input, pos, result, err, invoked>>

NextBranchView ==
    \/ LoadBranchesFails
    \/ BranchesLoaded
    \/ ViewLoading
    \/ ViewRenderRow
    \/ ViewPanics
    \/ ViewReturn

SpecBranchView == InitBranchView /\ [][NextBranchView]_vars

\* C28: View never slices out of range: every non-remote record it is about
\* to render has a Hash of at least seven characters.
C28_HashSliceInRange ==
    (unit = "BranchView" /\ pc = "view" /\ pos < Len(result.localOnly)) =>
        Len(result.localOnly[pos + 1].Hash) >= HashWidth

---------------------------------------------------------------------------
(* Further statements about parseUpstream, GetDefaultBranch and            *)
(* parseCommits, under their specifications above.                         *)

\* C24: parseUpstream reads each clause on its own: "<ref>: ahead N" gives
\* (N, 0), "<ref>: behind N" gives (0, N), text without a colon or without
\* either clause gives (0, 0), and the call never fails.
C24_ClausesAreOptional ==
    (unit = "parseUpstream" /\ pc = "done") =>
        /\ ~err
        /\ \A r \in UpstreamRefs, g \in Gaps, n \in 1..MaxCount :
              /\ input = AnnotationAhead(r, g, n) => result = <<n, 0>>
              /\ input = AnnotationBehind(r, g, n) => result = <<0, n>>
        /\ (~Contains(input, AheadWord) /\ ~Contains(input, BehindWord)) => result = <<0, 0>>

\* C26: whenever GetDefaultBranch returns without an error, the name it
\* returns is non-empty, whatever the probe commands printed.
C26_ReturnedNameNonEmpty ==
    (unit = "GetDefaultBranch" /\ pc = "done" /\ ~err) => result # <<>>

\* The text of a line after its seventh "|".
SubjectOf(line) ==
    LET bars    == {k \in 1..Len(line) : line[k] = "|"}
        seventh == CHOOSE k \in bars : Cardinality({j \in bars : j <= k}) = 7
    IN  SubSeq(line, seventh + 1, Len(line))

\* C27: the Message of every commit parseCommits emits is the whole subject of
\* its line, all the text after the seventh delimiter, also when the subject
\* contains "|".
C27_MessageIsWholeSubject ==
    unit = "parseCommits" =>
        \A i \in WellFormedLines(pos) :
            Cardinality(WellFormedLines(i)) <= Len(result) =>
                result[Cardinality(WellFormedLines(i))].Message = SubjectOf(input[i])

---------------------------------------------------------------------------
(* GraphView.View: the graph prefix of each visible commit row.  The input *)
(* is the view's state when View is called: the abbreviated hashes of      *)
(* g.commits, g.graphLines as parseGraphLines kept them (every line of     *)
(* `git log --graph --oneline`), g.offset and g.height.                    *)

MaxGraphRows == 2

\* The placeholder of the else branch.
Placeholder == <<" ", " ">>

ShortHashes == {<<"c", "1">>, <<"d", "2">>}

\* Graph lines: a commit row, an indented commit row, a row of glyphs only,
\* a row whose subject names another commit, and a row that starts at the hash.
GraphLines ==
    {<<"*", " ", "c", "1", " ", "m">>,
     <<"|", " ", "*", " ", "d", "2", " ", "m">>,
     <<"|", "/">>,
     <<"*", " ", "d", "2", " ", "c", "1">>,
     <<"c", "1", " ", "m">>}

ViewHeights == {4, 6}

GraphInputs ==
    {in \in [commits    : SeqsUpTo(ShortHashes, MaxGraphRows),
             graphLines : SeqsUpTo(GraphLines, MaxGraphRows),
             offset     : 0..(MaxGraphRows - 1),
             height     : ViewHeights] :
        in.offset = 0 \/ in.offset < Len(in.commits)}

\* View's window: visibleCount and end.
VisibleCount(in) == IF in.height - 4 < 1 THEN 1 ELSE in.height - 4

VisibleEnd(in) ==
    IF in.offset + VisibleCount(in) > Len(in.commits)
    THEN Len(in.commits)
    ELSE in.offset + VisibleCount(in)

\* The graph prefix View computes for commit i (counted from 0).
GraphPrefix(in, i) ==
    IF i < Len(in.graphLines)
    THEN LET graphLine == in.graphLines[i + 1]
             hashIdx   == Index(graphLine, in.commits[i + 1])
         IN  IF hashIdx > 0 THEN Slice(graphLine, 0, hashIdx) ELSE Placeholder
    ELSE <<>>

InitGraph ==
    /\ unit = "GraphView"
    /\ pc = "view"
    /\ input \in GraphInputs
    /\ pos = input.offset
    /\ result = <<>>
    /\ err = FALSE
    /\ invoked = <<>>

\* View with no commits to show.
GraphViewLoading ==
    /\ unit = "GraphView" /\ pc = "view"
    /\ Len(input.commits) = 0
    /\ pc' = "done"
    /\ UNCHANGED <<unit, input, pos, result, err, invoked>>

\* One iteration whose graph line holds the hash after its first character.
GraphRowPrefix ==
    /\ unit = "GraphView" /\ pc = "view"
    /\ Len(input.commits) > 0 /\ pos < VisibleEnd(input)
    /\ pos < Len(input.graphLines)
    /\ Index(input.graphLines[pos + 1], input.commits[pos + 1]) > 0
    /\ result' = Append(result, [commit |-> pos, graph |-> GraphPrefix(input, pos)])
    /\ pos' = pos + 1
    /\ UNCHANGED <<unit, pc, input, err, invoked>>

\* One iteration that takes the else branch.
GraphRowPlaceholder ==
    /\ unit = "GraphView" /\ pc = "view"
    /\ Len(input.commits) > 0 /\ pos < VisibleEnd(input)
    /\ pos < Len(input.graphLines)
    /\ Index(input.graphLines[pos + 1], input.commits[pos + 1]) <= 0
    /\ result' = Append(result, [commit |-> pos, graph |-> GraphPrefix(input, pos)])
    /\ pos' = pos + 1
    /\ UNCHANGED <<unit, pc, input, err, invoked>>

\* One iteration for a commit beyond the last graph line.
GraphRowNoLine ==
    /\ unit = "GraphView" /\ pc = "view"
    /\ Len(input.commits) > 0 /\ pos < VisibleEnd(input)
    /\ pos >= Len(input.graphLines)
    /\ result' = Append(result, [commit |-> pos, graph |-> GraphPrefix(input, pos)])
    /\ pos' = pos + 1
    /\ UNCHANGED <<unit, pc, input, err, invoked>>

\* The loop is over and View returns.
GraphViewReturn ==
    /\ unit = "GraphView" /\ pc = "view"
    /\ Len(input.commits) > 0 /\ pos >= VisibleEnd(input)
    /\ pc' = "done"
    /\ UNCHANGED <<unit, input, pos, result, err, invoked>>

NextGraph ==
    \/ GraphViewLoading
    \/ GraphRowPrefix
    \/ GraphRowPlaceholder
    \/ GraphRowNoLine
    \/ GraphViewReturn

SpecGraph == InitGraph /\ [][NextGraph]_vars

\* C23: the graph prefix of a rendered commit i is the part of graph line i
\* before the first occurrence of the commit's abbreviated hash (empty when
\* the hash starts the line), and it is the two-space placeholder exactly
\* when the hash does not occur in graph line i.
C23_PrefixPrecedesHash ==
    unit = "GraphView" =>
        \A k \in 1..Len(result) :
            LET i == result[k].commit
            IN  i < Len(input.graphLines) =>
                    LET hashIdx == Index(input.graphLines[i + 1], input.commits[i + 1])
                    IN  /\ hashIdx >= 0 =>
                              result[k].graph = Slice(input.graphLines[i + 1], 0, hashIdx)
                        /\ (result[k].graph = Placeholder) <=> (hashIdx < 0)

---------------------------------------------------------------------------
(* Refresh loads in flight (internal/ui/app.go, Model.Init and             *)
(* Model.Update).  Every loadData command runs in a goroutine of its own   *)
(* and its dashboardDataMsg reaches Update when the goroutine is done, so  *)
(* loads started in one order may read the repository and deliver in       *)
(* another.  result.loads[k] is load k, numbered by start; result.repo is  *)
(* the version of the repository, result.shown the version on display,     *)
(* result.applied the loads whose messages Update has handled, in order.   *)

MaxLoads == 3

MaxRepoChanges == 2

\* Nothing on display yet.
NoData == -1

InitRefresh ==
    /\ unit = "refresh"
    /\ pc = "running"
    /\ input = <<>>
    /\ pos = 0
    /\ result = [repo    |-> 0,
                 loads   |-> <<[phase |-> "started", data |-> NoData]>>,
                 shown   |-> NoData,
                 applied |-> <<>>]
    /\ err = FALSE
    /\ invoked = <<>>

\* The repository changes under the running program.
RepoChanges ==
    /\ unit = "refresh"
    /\ result.repo < MaxRepoChanges
    /\ result' = [result EXCEPT !.repo = @ + 1]
    /\ UNCHANGED <<unit, pc, input, pos, err, invoked>>

\* Update's tickMsg case in dashboard mode: one more loadData is started.
RefreshTick ==
    /\ unit = "refresh"
    /\ Len(result.loads) < MaxLoads
    /\ result' = [result EXCEPT !.loads = Append(@, [phase |-> "started", data |-> NoData])]
    /\ UNCHANGED <<unit, pc, input, pos, err, invoked>>

\* The goroutine of a load (k) runs its git commands and builds its message.
LoadRuns ==
    /\ unit = "refresh"
    /\ \E k \in 1..Len(result.loads) :
          /\ result.loads[k].phase = "started"
          /\ result' = [result EXCEPT !.loads[k] = [phase |-> "ready", data |-> result.repo]]
    /\ UNCHANGED <<unit, pc, input, pos, err, invoked>>

\* Update's dashboardDataMsg case for the message of a load (k): the dashboard
\* takes the message's fields, whatever it shows.
DataArrives ==
    /\ unit = "refresh"
    /\ \E k \in 1..Len(result.loads) :
          /\ result.loads[k].phase = "ready"
          /\ result' = [result EXCEPT !.loads[k].phase = "applied",
                                      !.shown = result.loads[k].data,
                                      !.applied = Append(@, k)]
    /\ UNCHANGED <<unit, pc, input, pos, err, invoked>>

NextRefresh ==
    \/ RepoChanges
    \/ RefreshTick
    \/ LoadRuns
    \/ DataArrives

SpecRefresh == InitRefresh /\ [][NextRefresh]_vars

\* C25: with two refresh loads in flight, a result of an earlier-started load
\* is never applied over the result of a later-started one, so the dashboard
\* ends up showing the data of the load started last.
C25_LaterLoadWins ==
    unit = "refresh" =>
        /\ \A i, j \in 1..Len(result.applied) :
              i < j => result.applied[i] < result.applied[j]
        /\ (\A k \in 1..Len(result.loads) : result.loads[k].phase = "applied") =>
              result.shown = result.loads[Len(result.loads)].data

=============================================================================
